---------------------------- MODULE Spec2Model ----------------------------
(***************************************************************************)
(* A model of the MediCortex request orchestration pipeline:               *)
(*   - the Placeholder Vault (PrivacyManager.redact_pii / restore_privacy),*)
(*   - the Knowledge Engine's entity resolution (resolve_entity),          *)
(*   - the responders' bounded reasoning loop (A2ABaseAgent.process),      *)
(*   - the LangGraph state machine of orchestrator.py and chat_endpoint.   *)
(* Text is a sequence of one-character strings; Python's str and list      *)
(* operations are modelled by what they compute.                           *)
(***************************************************************************)
EXTENDS Integers, Sequences, FiniteSets, TLC

VARIABLES
    \* ---- Placeholder Vault (SpecVault) ----
    vPc,            \* "idle" | "start" | "redacted" | "restored"
    vText,          \* the text handed to redact_pii
    vResults,       \* the recognizer's answer for vText (list of spans)
    vRedacted,      \* redact_pii's first result
    vMapping,       \* redact_pii's second result (insertion-ordered dict)
    vRestored,      \* restore_privacy's result
    analyzerCalls,  \* number of calls of analyzer.analyze
    \* ---- Knowledge Engine (SpecEngine) ----
    ePc,            \* "idle" | "ready" | "resolved" | "searched"
    concepts,       \* the store's concepts collection: set of [key, name]
    synonym_map,    \* lowercase alias -> concept key (set of [alias, key], unique alias)
    eQuery,         \* user_query of the last resolve_entity call
    eResult,        \* its result: a concept or NoNode
    key_to_idx,     \* concept key -> row of the embedding matrix
    embeddings,     \* the embedding matrix (NoMatrix for None)
    eTopK,          \* top_k of the last search_and_reason call
    eFacts,         \* the rows its traversal query returned
    eRanked,        \* its result: the ranked facts
    \* ---- Reasoning loop (SpecLoop) ----
    lPc,            \* "idle" | "start" | "loop" | "returned"
    max_iterations, \* the agent's max_iterations
    lPayload,       \* envelope.payload: a set of keys with the value of "input"
    lIter,          \* the loop index i (number of iterations begun)
    llmCalls,       \* number of llm.invoke calls
    toolCalls,      \* number of tool.invoke calls
    scratchpad,     \* sequence of [response, observation]
    thinking_steps, \* sequence of trace entries
    lResponse,      \* the AgentResponse returned by process (NoResponse before)
    lLoopResult,    \* what _execute_rect_loop returned (NoLoopResult before)
    lLastStep,      \* the path the last step of process took
    lLastResponse,  \* the response llm.invoke returned in the last iteration
    \* ---- Orchestration state machine (Spec) ----
    pPc,            \* "chat_start", the graph node to run next, "END", or "returned"
    state,          \* the AgentState
    written,        \* the AgentState keys that hold a value
    routes,         \* route_decision's return value
    branches,       \* per dispatched node: "pending" | "done"
    writes,         \* per dispatched node: the partial update it returned
    envelopes,      \* per dispatched node: the Envelope it built for process
    stageLog,       \* the sequential graph nodes in the order they completed
    kbCalls,        \* number of consult_medical_knowledge calls
    lastCall,       \* what the model call of the node that has just run answered
    historyStore,   \* the committed rows of the session: messages, timestamp updates
    httpStatus,     \* 0 while running, 200 or 500 when chat_endpoint returned
    \* ---- Streaming endpoint (SpecStream) ----
    sPc,            \* "idle" | "start" | "streaming" | "finishing" | "done" | "failed"
    sSeen,          \* the events astream_events has delivered so far
    sThoughts,      \* event_generator's list agent_thoughts
    sFinal,         \* event_generator's string final_output
    sOut,           \* the SSE items yielded so far
    sSaved          \* the messages the generator has saved with add_message

vaultVars  == <<vPc, vText, vResults, vRedacted, vMapping, vRestored, analyzerCalls>>
engineVars == <<ePc, concepts, synonym_map, eQuery, eResult, key_to_idx, embeddings,
                eTopK, eFacts, eRanked>>
loopVars   == <<lPc, max_iterations, lPayload, lIter, llmCalls, toolCalls, scratchpad,
                thinking_steps, lResponse, lLoopResult, lLastStep, lLastResponse>>
pipeVars   == <<pPc, state, written, routes, branches, writes, envelopes, stageLog, kbCalls,
                lastCall, historyStore, httpStatus>>
streamVars == <<sPc, sSeen, sThoughts, sFinal, sOut, sSaved>>
vars       == <<vaultVars, engineVars, loopVars, pipeVars, streamVars>>

None == "None"

(***************************************************************************)
(* Bounds of the model.                                                    *)
(***************************************************************************)
MaxLen   == 3     \* longest text handed to redact_pii
MaxSpans == 2     \* most spans the recognizer returns for one text

\* The characters of the texts handed to the Vault.
TextChars == {"a", "b"}
\* The entity types the modelled recognizer answers with (two of Entities).
RecognizedTypes == {"PERSON", "DATE_TIME"}

MaxRouteLen == 4  \* longest list the routing model answers with
MaxEvents   == 3  \* most events of a graph run before its final event
MaxConcepts == 2  \* most concepts in the knowledge store
MaxFacts    == 3  \* most freely chosen rows at the head of a traversal
\* Concept names and query terms of the modelled store (F/f differ in case only).
ConceptNames == {<<"F">>, <<"F","l">>, <<"f","l">>, <<"F","l","u">>, <<"l">>}
QueryTerms   == {<<"F">>, <<"f">>, <<"F","l">>, <<"f","l">>, <<"l">>, <<"u">>,
                 <<"F","_">>}
\* Aliases of the synonym map (lowercase).
Aliases      == {<<"f">>, <<"f","l">>, <<"u">>}

Min(a, b) == IF a <= b THEN a ELSE b
Max(a, b) == IF a >= b THEN a ELSE b

\* All sequences over S of length at most n.
SeqsUpTo(S, n) == UNION {[1..k -> S] : k \in 0..n}

\* Sequences without repeated elements.
IsInjective(s) == \A i, j \in 1..Len(s) : i # j => s[i] # s[j]

(***************************************************************************)
(* Python string helpers.                                                  *)
(***************************************************************************)
\* s[a:b] for 0 <= a, 0 <= b: offsets are clamped to len(s).
PySlice(s, a, b) ==
    LET lo == Min(a, Len(s))
        hi == Min(b, Len(s))
    IN  IF lo >= hi THEN <<>> ELSE SubSeq(s, lo + 1, hi)

\* s[a:]
PyFrom(s, a) == PySlice(s, a, Len(s))

\* s.startswith(p)
StartsWith(s, p) == Len(p) <= Len(s) /\ SubSeq(s, 1, Len(p)) = p

\* p in s (substring test)
Contains(s, p) == \E i \in 0..(Len(s) - Len(p)) : SubSeq(s, i + 1, i + Len(p)) = p

\* s.replace(old, new) for a non-empty old: every non-overlapping occurrence,
\* scanning left to right.
RECURSIVE Replace(_, _, _)
Replace(s, old, new) ==
    IF Len(s) < Len(old) THEN s
    ELSE IF StartsWith(s, old)
         THEN new \o Replace(PyFrom(s, Len(old)), old, new)
         ELSE <<Head(s)>> \o Replace(Tail(s), old, new)

\* str(n) for n >= 0, as characters.
DigitChar(d) ==
    CASE d = 0 -> "0" [] d = 1 -> "1" [] d = 2 -> "2" [] d = 3 -> "3" [] d = 4 -> "4"
      [] d = 5 -> "5" [] d = 6 -> "6" [] d = 7 -> "7" [] d = 8 -> "8" [] d = 9 -> "9"

RECURSIVE IntToStr(_)
IntToStr(n) == IF n < 10 THEN <<DigitChar(n)>>
               ELSE IntToStr(n \div 10) \o <<DigitChar(n % 10)>>

(***************************************************************************)
(* Python dict, insertion-ordered: a sequence of <<key, value>> pairs.     *)
(***************************************************************************)
EmptyDict == <<>>
DictKeys(d) == {d[i][1] : i \in 1..Len(d)}
DictHas(d, k) == k \in DictKeys(d)
DictGet(d, k, default) ==
    IF DictHas(d, k) THEN (CHOOSE p \in {d[i] : i \in 1..Len(d)} : p[1] = k)[2]
    ELSE default
\* d[k] = v: an existing key keeps its position.
DictSet(d, k, v) ==
    IF DictHas(d, k)
    THEN [i \in 1..Len(d) |-> IF d[i][1] = k THEN <<k, v>> ELSE d[i]]
    ELSE Append(d, <<k, v>>)

(***************************************************************************)
(* Placeholder Vault: PrivacyManager.                                      *)
(***************************************************************************)
\* entities=[...] of analyzer.analyze
Entities == {"PERSON", "PHONE_NUMBER", "EMAIL_ADDRESS", "DATE_TIME"}

\* The characters of an entity type's name.
EntityChars(t) ==
    CASE t = "PERSON"        -> <<"P","E","R","S","O","N">>
      [] t = "PHONE_NUMBER"  -> <<"P","H","O","N","E","_","N","U","M","B","E","R">>
      [] t = "EMAIL_ADDRESS" -> <<"E","M","A","I","L","_","A","D","D","R","E","S","S">>
      [] t = "DATE_TIME"     -> <<"D","A","T","E","_","T","I","M","E">>

\* f"<{entity_type}_{count}>"
Placeholder(entity_type, count) ==
    <<"<">> \o EntityChars(entity_type) \o <<"_">> \o IntToStr(count) \o <<">">>

\* sorted(results, key=lambda x: x.start, reverse=True): stable, so results
\* with equal start keep the recognizer's order.
RECURSIVE InsertDesc(_, _)
InsertDesc(sortedSeq, r) ==
    IF sortedSeq = <<>> THEN <<r>>
    ELSE IF Head(sortedSeq).start >= r.start
         THEN <<Head(sortedSeq)>> \o InsertDesc(Tail(sortedSeq), r)
         ELSE <<r>> \o sortedSeq

\* The results as the recognizer returned them (the sort left out).
MutUnsorted(results) == results

RECURSIVE SortedByStartDesc(_)
SortedByStartDesc(results) ==
    IF results = <<>> THEN <<>>
    ELSE InsertDesc(SortedByStartDesc(SubSeq(results, 1, Len(results) - 1)),
                    results[Len(results)])

\* The for loop of redact_pii over the sorted results.
RECURSIVE RedactLoop(_, _, _, _, _)
RedactLoop(text, results, redacted_text, mapping, type_counts) ==
    IF results = <<>>
    THEN [redacted_text |-> redacted_text, mapping |-> mapping]
    ELSE LET result         == Head(results)
             original_value == PySlice(text, result.start, result.end)
             count          == type_counts[result.entity_type] + 1
             placeholder    == Placeholder(result.entity_type, count)
         IN  RedactLoop(text, Tail(results),
                        PySlice(redacted_text, 0, result.start) \o placeholder
                            \o PyFrom(redacted_text, result.end),
                        DictSet(mapping, placeholder, original_value),
                        [type_counts EXCEPT ![result.entity_type] = count])

\* redact_pii(text), given the answer the recognizer gives for text; analyzed
\* tells whether analyzer.analyze was called.
MutRedactNoEmptyGuard(text, results) ==
    LET r == RedactLoop(text, SortedByStartDesc(results), text, EmptyDict,
                        [t \in Entities |-> 0])
    IN  [redacted_text |-> r.redacted_text, mapping |-> r.mapping, analyzed |-> TRUE]

redact_pii(text, results) ==
    IF text = <<>>
    THEN [redacted_text |-> <<>>, mapping |-> EmptyDict, analyzed |-> FALSE]
    ELSE LET r == RedactLoop(text, SortedByStartDesc(results), text, EmptyDict,
                             [t \in Entities |-> 0])
         IN  [redacted_text |-> r.redacted_text, mapping |-> r.mapping,
              analyzed |-> TRUE]

\* restore_privacy(text, mapping): mapping.items() in insertion order.
RECURSIVE restore_privacy(_, _)
restore_privacy(text, mapping) ==
    IF mapping = <<>> THEN text
    ELSE restore_privacy(Replace(text, Head(mapping)[1], Head(mapping)[2]),
                         Tail(mapping))

(***************************************************************************)
(* The recognizer (analyzer.analyze): any list of at most MaxSpans         *)
(* distinct non-empty spans of the text; spans may overlap.                *)
(***************************************************************************)
SpanSet(text) ==
    {sp \in [entity_type : RecognizedTypes, start : 0..Len(text), end : 0..Len(text)] :
        sp.start < sp.end}

AnalyzerResults(text) ==
    {rs \in SeqsUpTo(SpanSet(text), MaxSpans) : IsInjective(rs)}

Texts == SeqsUpTo(TextChars, MaxLen)

VaultIdle ==
    /\ vPc = "idle" /\ vText = <<>> /\ vResults = <<>> /\ vRedacted = <<>>
    /\ vMapping = EmptyDict /\ vRestored = <<>> /\ analyzerCalls = 0

\* redact_pii(vText)
VaultRedact ==
    /\ vPc = "start"
    /\ \E results \in (IF vText = <<>> THEN {<<>>} ELSE AnalyzerResults(vText)) :
         LET r == redact_pii(vText, results)
         IN  /\ vResults' = results
             /\ vRedacted' = r.redacted_text
             /\ vMapping' = r.mapping
             /\ analyzerCalls' = analyzerCalls + (IF r.analyzed THEN 1 ELSE 0)
    /\ vPc' = "redacted"
    /\ UNCHANGED <<vText, vRestored>>

\* restore_privacy(vRedacted, vMapping)
VaultRestore ==
    /\ vPc = "redacted"
    /\ vRestored' = restore_privacy(vRedacted, vMapping)
    /\ vPc' = "restored"
    /\ UNCHANGED <<vText, vResults, vRedacted, vMapping, analyzerCalls>>

(***************************************************************************)
(* Knowledge Engine: MedicalReasoningEngine.resolve_entity.                *)
(* The store is the concepts collection; _aql answers a query with the     *)
(* matching documents (an AQL error is answered with the empty list, which *)
(* is what a store without a match answers).                               *)
(***************************************************************************)
\* str.lower() on the modelled characters.
LowerChar(c) ==
    CASE c = "F" -> "f" [] c = "L" -> "l" [] c = "U" -> "u" [] c = "N" -> "n"
      [] c = "O" -> "o" [] c = "E" -> "e" [] OTHER -> c
Lower(s) == [i \in 1..Len(s) |-> LowerChar(s[i])]

\* query_lower in self.synonym_map / self.synonym_map[query_lower]
SynonymHas(alias) == \E e \in synonym_map : e.alias = alias
SynonymGet(alias) == (CHOOSE e \in synonym_map : e.alias = alias).key

\* Python's None where a concept document is expected.
NoNode == [key |-> 0, name |-> <<>>]

\* fetch_node_by_id: RETURN DOCUMENT(CONCAT('concepts/', @id)); res[0] if res else None
fetch_node_by_id(node_id) ==
    IF \E d \in concepts : d.key = node_id
    THEN CHOOSE d \in concepts : d.key = node_id
    ELSE NoNode

\* FOR d IN concepts FILTER d.name == @q LIMIT 1 RETURN d: the possible answers
\* (LIMIT 1 without SORT returns any one match).
aql_exact(q) == {d \in concepts : d.name = q}

\* AQL LIKE(text, search, true): case-insensitive; in the search pattern "%"
\* stands for any run of characters and "_" for any single character (the
\* escape character backslash is not among the modelled characters).
RECURSIVE LikeMatch(_, _)
LikeMatch(text, search) ==
    IF search = <<>> THEN text = <<>>
    ELSE IF Head(search) = "%"
         THEN LikeMatch(text, Tail(search))
              \/ (text # <<>> /\ LikeMatch(Tail(text), search))
    ELSE IF Head(search) = "_"
         THEN text # <<>> /\ LikeMatch(Tail(text), Tail(search))
    ELSE /\ text # <<>>
         /\ LowerChar(Head(text)) = LowerChar(Head(search))
         /\ LikeMatch(Tail(text), Tail(search))

\* FOR d IN concepts FILTER LIKE(d.name, CONCAT(@q, "%"), true)
\*   SORT LENGTH(d.name) ASC LIMIT 1: any match of minimal name length.
aql_fuzzy(q) ==
    LET matches == {d \in concepts : LikeMatch(d.name, q \o <<"%">>)}
    IN  {d \in matches : \A o \in matches : Len(d.name) <= Len(o.name)}

\* Exact tier tried before the synonym tier.
MutResolveExactFirst(user_query) ==
    LET query_lower == Lower(user_query)
        node == IF SynonymHas(query_lower)
                THEN fetch_node_by_id(SynonymGet(query_lower)) ELSE NoNode
    IN  IF aql_exact(user_query) # {} THEN aql_exact(user_query)
        ELSE IF node # NoNode THEN {node}
        ELSE IF aql_fuzzy(user_query) # {} THEN aql_fuzzy(user_query)
        ELSE {NoNode}

\* resolve_entity(user_query): the set of results the call can return.
resolve_entity(user_query) ==
    LET query_lower == Lower(user_query)
        node == IF SynonymHas(query_lower)
                THEN fetch_node_by_id(SynonymGet(query_lower)) ELSE NoNode
    IN  IF node # NoNode THEN {node}
        ELSE IF aql_exact(user_query) # {} THEN aql_exact(user_query)
        ELSE IF aql_fuzzy(user_query) # {} THEN aql_fuzzy(user_query)
        ELSE {NoNode}

\* The stores of the model: at most MaxConcepts concepts with unique keys.
Stores ==
    {{[key |-> k, name |-> f[k]] : k \in {k \in 1..MaxConcepts : f[k] # <<>>}} :
        f \in [1..MaxConcepts -> ConceptNames \cup {<<>>}]}

\* The synonym maps of the model: at most one alias; its key may be absent
\* from the store.
SynonymMaps ==
    {{}} \cup {{[alias |-> a, key |-> k]} : a \in Aliases, k \in 1..MaxConcepts}

\* self.embeddings = None
NoMatrix == <<>>

EngineIdle ==
    /\ ePc = "idle" /\ concepts = {} /\ synonym_map = {}
    /\ eQuery = <<>> /\ eResult = NoNode
    /\ key_to_idx = <<>> /\ embeddings = NoMatrix
    /\ eTopK = 0 /\ eFacts = <<>> /\ eRanked = <<>>

\* One call of resolve_entity.
Resolve ==
    /\ ePc \in {"ready", "resolved"}
    /\ \E q \in QueryTerms :
         /\ eQuery' = q
         /\ eResult' \in resolve_entity(q)
    /\ ePc' = "resolved"
    /\ UNCHANGED <<concepts, synonym_map, key_to_idx, embeddings, eTopK, eFacts, eRanked>>

(***************************************************************************)
(* MedicalReasoningEngine.search_and_reason.  A fact is a row of the       *)
(* traversal query; its position in the answer stands for the row's name,  *)
(* relation and hop, which the ranking does not read.                      *)
(***************************************************************************)
\* LIMIT 20 of the traversal query, and the default of top_k.
TraverseLimit == 20
DefaultTopK   == 10

\* The keys of the vertices a traversal reaches, and the rows of the
\* embedding matrix: unit vectors, so that the cosine is the dot product.
FactKeys    == {1, 2, 3}
UnitVectors == {<<1, 0>>, <<0, 1>>, <<-1, 0>>}

\* key_to_idx and the matrix for a table f of vectors (<<>>: key not indexed).
IndexOf(f) ==
    LET indexed == {k \in DOMAIN f : f[k] # <<>>}
    IN  [k \in indexed |-> Cardinality({j \in indexed : j < k})]
RowsOf(f) ==
    LET idx == IndexOf(f)
    IN  [i \in 1..Cardinality(DOMAIN idx) |-> f[CHOOSE k \in DOMAIN idx : idx[k] = i - 1]]

\* What __init__ loads: both artifacts, or the key map without the matrix.
EngineArtifacts ==
    {[key_to_idx |-> IndexOf(f), embeddings |-> RowsOf(f)] :
        f \in [FactKeys -> UnitVectors \cup {<<>>}]}
    \cup {[key_to_idx |-> IndexOf(f), embeddings |-> NoMatrix] :
             f \in [FactKeys -> {<<1, 0>>, <<>>}]}

\* The store of the ranking model, and the terms searched: two resolve to a
\* concept, one to none.
SearchStores ==
    {{}, {[key |-> 1, name |-> <<"F">>], [key |-> 2, name |-> <<"F","l">>],
          [key |-> 3, name |-> <<"l">>]}}
SearchTerms == {<<"F">>, <<"F","l">>, <<"u">>}
TopKs == {1, 2, DefaultTopK, TraverseLimit + 1}

\* sklearn's cosine_similarity(a, b)[0][0] for rows of norm 1.
cosine_similarity(a, b) == a[1] * b[1] + a[2] * b[2]

\* The vertices the traversal FOR v, e, p IN 1..2 ANY @startId finds, in its
\* order: a freely chosen head, then none or many further rows.
RECURSIVE Repeat(_, _)
Repeat(x, n) == IF n = 0 THEN <<>> ELSE <<x>> \o Repeat(x, n - 1)
TraversalPaths ==
    {head \o Repeat(3, n) : head \in SeqsUpTo(FactKeys, MaxFacts), n \in {0, TraverseLimit}}

\* self._aql(aql_traverse, ...): the first 20 rows (an AQL error gives []).
AqlTraverse(paths) == PySlice(paths, 0, TraverseLimit)

\* Lines 114-119: anchor_vec, or <<>> for None.
AnchorVec(anchor) ==
    IF anchor.key \in DOMAIN key_to_idx /\ embeddings # NoMatrix
    THEN embeddings[key_to_idx[anchor.key] + 1] ELSE <<>>

\* Lines 143-150: the rows with their scores.
RankedFacts(anchor, facts) ==
    [i \in 1..Len(facts) |->
        [key |-> facts[i], pos |-> i,
         score |-> IF AnchorVec(anchor) # <<>> /\ facts[i] \in DOMAIN key_to_idx
                   THEN cosine_similarity(AnchorVec(anchor),
                                          embeddings[key_to_idx[facts[i]] + 1])
                   ELSE 0]]

\* list.sort(key=score, reverse=True): stable, an entry goes behind every
\* entry whose score is not smaller.
RECURSIVE InsertByScore(_, _)
InsertByScore(sorted, r) ==
    IF sorted = <<>> THEN <<r>>
    ELSE IF Head(sorted).score >= r.score
         THEN <<Head(sorted)>> \o InsertByScore(Tail(sorted), r)
         ELSE <<r>> \o sorted
RECURSIVE SortFold(_, _)
SortFold(sorted, rest) ==
    IF rest = <<>> THEN sorted
    ELSE SortFold(InsertByScore(sorted, Head(rest)), Tail(rest))

\* An ascending sort read backwards: equal scores come out in reverse order.
RECURSIVE MutInsertAscending(_, _)
MutInsertAscending(sorted, r) ==
    IF sorted = <<>> THEN <<r>>
    ELSE IF Head(sorted).score > r.score
         THEN <<Head(sorted)>> \o MutInsertAscending(Tail(sorted), r)
         ELSE <<r>> \o sorted
RECURSIVE MutSortReversed(_)
MutSortReversed(ranked_facts) ==
    IF ranked_facts = <<>> THEN <<>>
    ELSE MutInsertAscending(MutSortReversed(SubSeq(ranked_facts, 1, Len(ranked_facts) - 1)),
                            ranked_facts[Len(ranked_facts)])

SortByScoreDesc(ranked_facts) == SortFold(<<>>, ranked_facts)

\* search_and_reason after entity linking and the traversal query.
search_and_reason(anchor, facts, top_k) ==
    IF anchor = NoNode THEN <<>>
    ELSE IF facts = <<>> THEN <<>>
    ELSE PySlice(SortByScoreDesc(RankedFacts(anchor, facts)), 0, top_k)

\* One call of search_and_reason on a freshly loaded engine; the traversal
\* runs only for a found anchor.
SearchAndReason ==
    /\ ePc = "ready"
    /\ \E q \in SearchTerms, top_k \in TopKs, paths \in TraversalPaths :
         \E anchor \in resolve_entity(q) :
            LET facts == IF anchor = NoNode THEN <<>> ELSE AqlTraverse(paths)
            IN  /\ eQuery' = q
                /\ eResult' = anchor
                /\ eTopK' = top_k
                /\ eFacts' = facts
                /\ eRanked' = search_and_reason(anchor, facts, top_k)
    /\ ePc' = "searched"
    /\ UNCHANGED <<concepts, synonym_map, key_to_idx, embeddings>>

(***************************************************************************)
(* Agent Protocol: protocols.AgentResponse and A2ABaseAgent.               *)
(***************************************************************************)
\* The fields AgentResponse declares (usage and timestamp have defaults and
\* are not read by the pipeline; they are left out of the record).
AgentResponseFields == {"envelope_id", "output", "error"}

\* AgentResponse(**kwargs): a pydantic model keeps its declared fields and
\* ignores any other keyword; error defaults to None.
AgentResponse(kwargs) ==
    [f \in AgentResponseFields |->
        IF f \in DOMAIN kwargs THEN kwargs[f] ELSE None]

NoResponse   == [envelope_id |-> None, output |-> None, error |-> None]
NoLoopResult == [output |-> None, thinking |-> <<>>]

\* max_iterations: int = 3 (default) and max_iterations=5 (the agents of
\* pubmed_agent.py, diagnosis_agent.py, report_agent.py, ...).
DefaultMaxIterations == 3
ComplexMaxIterations == 5

\* self.tools: the names of the agent's tools.
ToolNames == {<<"s">>}

\* action.strip("[]")
RECURSIVE LStripBrackets(_)
LStripBrackets(a) ==
    IF a # <<>> /\ Head(a) \in {"[", "]"} THEN LStripBrackets(Tail(a)) ELSE a
RECURSIVE RStripBrackets(_)
RStripBrackets(a) ==
    IF a # <<>> /\ a[Len(a)] \in {"[", "]"}
    THEN RStripBrackets(SubSeq(a, 1, Len(a) - 1)) ELSE a
StripBrackets(a) == RStripBrackets(LStripBrackets(a))

\* What the parse of one model response finds:
\*   thought  "matched": thought_match; "unmatched": "Thought:" occurs but the
\*            regex misses (nothing but whitespace follows it); "none"
\*   text     thought_match.group(1).strip()
\*   final    final_answer_match
\*   action   action_match.group(1).strip(), <<>> without action_match
\*   actionIn "Action:" in response
\*   input    input_match
Resp(thought, text, final, action, actionIn, input) ==
    [thought |-> thought, text |-> text, final |-> final, action |-> action,
     actionIn |-> actionIn, input |-> input]

LLMResponses ==
    { Resp("matched", "t1", TRUE,  <<>>, FALSE, FALSE),           \* Thought + Final Answer
      Resp("matched", "t1", TRUE,  <<"s">>, TRUE, TRUE),          \* Final Answer and an Action pair
      Resp("none",    "",   TRUE,  <<>>, FALSE, FALSE),           \* Final Answer alone
      Resp("matched", "t1", FALSE, <<"s">>, TRUE, TRUE),          \* known tool
      Resp("matched", "t2", FALSE, <<"[","s","]">>, TRUE, TRUE),  \* known tool in brackets
      Resp("matched", "t1", FALSE, <<"x">>, TRUE, TRUE),          \* unknown tool
      Resp("none",    "",   FALSE, <<>>, FALSE, FALSE),           \* unstructured text
      Resp("matched", "t2", FALSE, <<>>, FALSE, FALSE),           \* Thought alone
      Resp("unmatched", "", FALSE, <<>>, FALSE, FALSE),           \* "Thought:" and nothing after
      Resp("none",    "",   FALSE, <<"s">>, TRUE, FALSE),         \* Action without Action Input
      Resp("none",    "",   FALSE, <<>>, TRUE, FALSE) }           \* "Action:" and nothing after

\* No response: llm.invoke has not returned in this call of process.
NoLLMResponse == Resp("absent", "", FALSE, <<>>, FALSE, FALSE)

LimitMessage == "Agent reached max iterations without final answer."
ValidationMessage == "Validation Error: 'input' field missing in payload."

\* Lines 153-161: the Thought segment appended to thinking_steps.
WithThought(ts, response) ==
    IF response.thought = "matched" THEN Append(ts, <<"Thought", response.text>>)
    ELSE IF response.thought = "unmatched" THEN Append(ts, <<"Thought", "">>)
    ELSE ts

\* The tool step with the except clause of lines 181-183 left out: the
\* tool's exception leaves the loop.
MutToolStepNoCatch(action, toolOutcome, ts) ==
    IF action \in ToolNames
    THEN IF toolOutcome = "throws"
         THEN [raised |-> TRUE, called |-> TRUE, observation |-> "Error: exc",
               ts |-> Append(ts, <<"Action", action>>)]
         ELSE [raised |-> FALSE, called |-> TRUE, observation |-> "out",
               ts |-> Append(Append(ts, <<"Action", action>>),
                             <<"Observation", "Tool Output: out">>)]
    ELSE [raised |-> FALSE, called |-> FALSE,
          observation |-> "Error: Tool not found.",
          ts |-> Append(ts, <<"Observation", "Error: Tool not found.">>)]

\* Lines 173-188: look the tool up, invoke it, build the observation.
ToolStep(action, toolOutcome, ts) ==
    IF action \in ToolNames
    THEN IF toolOutcome = "throws"
         THEN [raised |-> FALSE, called |-> TRUE, observation |-> "Error: exc",
               ts |-> Append(Append(ts, <<"Action", action>>),
                             <<"Observation", "Tool Error: exc">>)]
         ELSE [raised |-> FALSE, called |-> TRUE, observation |-> "out",
               ts |-> Append(Append(ts, <<"Action", action>>),
                             <<"Observation", "Tool Output: out">>)]
    ELSE [raised |-> FALSE, called |-> FALSE,
          observation |-> "Error: Tool not found.",
          ts |-> Append(ts, <<"Observation", "Error: Tool not found.">>)]

\* The iteration with the Action pair tested before the Final Answer marker.
MutRectActionFirst(response, toolOutcome, sp, ts) ==
    LET ts1 == WithThought(ts, response)
    IN  IF response.action # <<>> /\ response.input
        THEN LET step == ToolStep(StripBrackets(response.action), toolOutcome, ts1)
             IN  [exit |-> "continue",
                  kind |-> IF ~step.called THEN "tool_not_found"
                           ELSE IF toolOutcome = "throws" THEN "tool_error"
                           ELSE "tool_ok",
                  output |-> None,
                  sp |-> Append(sp, [response |-> response,
                                     observation |-> step.observation]),
                  ts |-> step.ts, called |-> step.called]
        ELSE IF response.final
        THEN [exit |-> "return", kind |-> "final", output |-> "ans",
              sp |-> sp, ts |-> ts1, called |-> FALSE]
        ELSE IF response.thought = "none" /\ ~response.actionIn
        THEN [exit |-> "return", kind |-> "implicit_final", output |-> "raw",
              sp |-> sp, ts |-> ts1, called |-> FALSE]
        ELSE [exit |-> "continue", kind |-> "stuck", output |-> None,
              sp |-> Append(sp, [response |-> response,
                                 observation |-> "Could not parse action. Review format."]),
              ts |-> ts1, called |-> FALSE]

\* One iteration of the for loop of _execute_rect_loop after llm.invoke
\* returned response: exit is "return" (with output), "continue" or "raise".
RectIteration(response, toolOutcome, sp, ts) ==
    LET ts1 == WithThought(ts, response)
    IN  IF response.final
        THEN [exit |-> "return", kind |-> "final", output |-> "ans",
              sp |-> sp, ts |-> ts1, called |-> FALSE]
        ELSE IF response.action # <<>> /\ response.input
        THEN LET step == ToolStep(StripBrackets(response.action), toolOutcome, ts1)
             IN  IF step.raised
                 THEN [exit |-> "raise", kind |-> "tool_raise", output |-> None,
                       sp |-> sp, ts |-> step.ts, called |-> step.called]
                 ELSE [exit |-> "continue",
                       kind |-> IF ~step.called THEN "tool_not_found"
                                ELSE IF toolOutcome = "throws" THEN "tool_error"
                                ELSE "tool_ok",
                       output |-> None,
                       sp |-> Append(sp, [response |-> response,
                                          observation |-> step.observation]),
                       ts |-> step.ts, called |-> step.called]
        ELSE IF response.thought = "none" /\ ~response.actionIn
        THEN [exit |-> "return", kind |-> "implicit_final", output |-> "raw",
              sp |-> sp, ts |-> ts1, called |-> FALSE]
        ELSE [exit |-> "continue", kind |-> "stuck", output |-> None,
              sp |-> Append(sp, [response |-> response,
                                 observation |-> "Could not parse action. Review format."]),
              ts |-> ts1, called |-> FALSE]

\* envelope.payload of the modelled calls: no "input", an empty one, a query.
Payloads == {EmptyDict, <<(<<"input", "">>)>>, <<(<<"input", "q">>)>>}

LoopIdle ==
    /\ lPc = "idle" /\ max_iterations = 0 /\ lPayload = EmptyDict /\ lIter = 0
    /\ llmCalls = 0 /\ toolCalls = 0 /\ scratchpad = <<>> /\ thinking_steps = <<>>
    /\ lResponse = NoResponse /\ lLoopResult = NoLoopResult /\ lLastStep = "none"
    /\ lLastResponse = NoLLMResponse

\* The payload check testing only for the key: an empty input enters the loop.
MutValidateOnlyMissing ==
    /\ lPc = "start"
    /\ IF ~DictHas(lPayload, "input")
       THEN /\ lResponse' = AgentResponse([envelope_id |-> "key", output |-> None,
                                            error |-> ValidationMessage])
            /\ lPc' = "returned"
            /\ lLastStep' = "invalid"
       ELSE /\ lPc' = "loop"
            /\ UNCHANGED <<lResponse, lLastStep>>
    /\ UNCHANGED <<max_iterations, lPayload, lIter, llmCalls, toolCalls, scratchpad,
                   thinking_steps, lLoopResult, lLastResponse>>

\* process, lines 95-101: the payload check.
ProcessValidate ==
    /\ lPc = "start"
    /\ IF DictGet(lPayload, "input", "") = ""
       THEN /\ lResponse' = AgentResponse([envelope_id |-> "key", output |-> None,
                                            error |-> ValidationMessage])
            /\ lPc' = "returned"
            /\ lLastStep' = "invalid"
       ELSE /\ lPc' = "loop"
            /\ UNCHANGED <<lResponse, lLastStep>>
    /\ UNCHANGED <<max_iterations, lPayload, lIter, llmCalls, toolCalls, scratchpad,
                   thinking_steps, lLoopResult, lLastResponse>>

\* One iteration: llm.invoke returns a response, which is parsed and acted on.
LoopIterate ==
    /\ lPc = "loop"
    /\ lIter < max_iterations
    /\ \E response \in LLMResponses, toolOutcome \in {"ok", "throws"} :
         LET it == RectIteration(response, toolOutcome, scratchpad, thinking_steps)
         IN  /\ scratchpad' = it.sp
             /\ thinking_steps' = it.ts
             /\ toolCalls' = toolCalls + (IF it.called THEN 1 ELSE 0)
             /\ lLastStep' = it.kind
             /\ lLastResponse' = response
             /\ CASE it.exit = "return" ->
                       /\ lLoopResult' = [output |-> it.output, thinking |-> it.ts]
                       /\ lResponse' = AgentResponse([envelope_id |-> "key",
                                           output |-> it.output, thinking |-> it.ts])
                       /\ lPc' = "returned"
                  [] it.exit = "raise" ->
                       /\ lResponse' = AgentResponse([envelope_id |-> "key",
                                           output |-> None, error |-> "exc"])
                       /\ lPc' = "returned"
                       /\ UNCHANGED lLoopResult
                  [] it.exit = "continue" ->
                       /\ UNCHANGED <<lResponse, lLoopResult, lPc>>
    /\ lIter' = lIter + 1
    /\ llmCalls' = llmCalls + 1
    /\ UNCHANGED <<max_iterations, lPayload>>

\* The except path answering with the error and a partial output.
MutRaisesKeepsOutput ==
    /\ lPc = "loop"
    /\ lIter < max_iterations
    /\ lIter' = lIter + 1
    /\ llmCalls' = llmCalls + 1
    /\ lResponse' = AgentResponse([envelope_id |-> "key", output |-> "partial",
                                    error |-> "exc"])
    /\ lPc' = "returned"
    /\ lLastStep' = "llm_raise"
    /\ lLastResponse' = NoLLMResponse
    /\ UNCHANGED <<max_iterations, lPayload, toolCalls, scratchpad, thinking_steps,
                   lLoopResult>>

\* llm.invoke raises: the exception leaves the loop and process answers with
\* an error response (lines 110-116).
LoopLLMRaises ==
    /\ lPc = "loop"
    /\ lIter < max_iterations
    /\ lIter' = lIter + 1
    /\ llmCalls' = llmCalls + 1
    /\ lResponse' = AgentResponse([envelope_id |-> "key", output |-> None,
                                    error |-> "exc"])
    /\ lPc' = "returned"
    /\ lLastStep' = "llm_raise"
    /\ lLastResponse' = NoLLMResponse
    /\ UNCHANGED <<max_iterations, lPayload, toolCalls, scratchpad, thinking_steps,
                   lLoopResult>>

\* The for loop ran out: line 201, then process builds the response.
LoopExhausted ==
    /\ lPc = "loop"
    /\ lIter = max_iterations
    /\ lLoopResult' = [output |-> LimitMessage, thinking |-> thinking_steps]
    /\ lResponse' = AgentResponse([envelope_id |-> "key", output |-> LimitMessage,
                                    thinking |-> thinking_steps])
    /\ lPc' = "returned"
    /\ lLastStep' = "exhausted"
    /\ UNCHANGED <<max_iterations, lPayload, lIter, llmCalls, toolCalls, scratchpad,
                   thinking_steps, lLastResponse>>

(***************************************************************************)
(* Orchestration state machine: the LangGraph workflow of orchestrator.py  *)
(* as chat_endpoint runs it.  A text is a sequence of strings: single      *)
(* characters where the Vault rewrites them, whole fixed phrases elsewhere.*)
(***************************************************************************)
\* AGENT_REGISTRY.keys(), in the order the nodes are added to the graph.
RegistryOrder == <<"pubmed", "diagnosis", "report", "patient", "drug">>
AGENT_REGISTRY == {RegistryOrder[i] : i \in 1..Len(RegistryOrder)}

\* The agents of AGENT_REGISTRY are SimpleReactAgent objects: the class
\* defines __init__ and invoke, and no process.
RegisteredAgentHasProcess == FALSE

MAX_CONCURRENT_AGENTS == 3

\* agent_key.title()
Title(k) ==
    CASE k = "pubmed" -> "Pubmed" [] k = "diagnosis" -> "Diagnosis"
      [] k = "report" -> "Report" [] k = "patient" -> "Patient" [] k = "drug" -> "Drug"

\* The messages the model receives (request.message) and what the recognizer
\* answers for them inside the pipeline: at most one span, a personal name.
PipelineInputs == {<<>>, <<"a", "b">>}
PipelineAnalyzerResults(text) ==
    {<<>>} \cup {<<sp>> : sp \in {sp \in SpanSet(text) : sp.entity_type = "PERSON"}}

\* The items of the lists the routing model answers with: registry keys, a
\* string that is no key, and the float NaN (json.loads accepts NaN).
NaN == "float:nan"
RouteItems == {"pubmed", "diagnosis", "patient", "drug", "bogus", NaN}

\* What llm.invoke(...) and json.loads make of the routing model's answer.
RouterOutcomes ==
    {[kind |-> k, items |-> <<>>] : k \in {"raise", "unparseable", "nonlist"}}
    \cup {[kind |-> "list", items |-> l] :
             l \in {l \in SeqsUpTo(RouteItems, MaxRouteLen) : IsInjective(l)}}

\* node_router, lines 240-249: the routes it records.
RouterRoutes(outcome) ==
    CASE outcome.kind = "list"        -> outcome.items
      [] outcome.kind = "nonlist"     -> <<"pubmed">>
      [] outcome.kind \in {"raise", "unparseable"} -> <<"diagnosis">>

\* str(routes) and eval(last_msg): eval gives the list back unless an item's
\* repr is no Python expression (repr(float('nan')) is the bare name nan).
StrOfList(l) == [repr |-> l]
EvalRaises(content) == \E i \in 1..Len(content.repr) : content.repr[i] = NaN
EvalOf(content) == content.repr

\* [r for r in routes if r in AGENT_REGISTRY]
RECURSIVE FilterRegistry(_)
FilterRegistry(l) ==
    IF l = <<>> THEN <<>>
    ELSE IF Head(l) \in AGENT_REGISTRY
         THEN <<Head(l)>> \o FilterRegistry(Tail(l))
         ELSE FilterRegistry(Tail(l))

\* route_decision without the circuit breaker.
MutRouteNoCap(messages) ==
    LET last_msg == messages[Len(messages)].content
    IN  IF EvalRaises(last_msg) THEN <<"diagnosis">>
        ELSE LET valid_routes == FilterRegistry(EvalOf(last_msg))
             IN  IF valid_routes # <<>> THEN valid_routes ELSE <<"diagnosis">>

\* route_decision(state), lines 354-363.
route_decision(messages) ==
    LET last_msg == messages[Len(messages)].content
    IN  IF EvalRaises(last_msg) THEN <<"diagnosis">>
        ELSE LET valid_routes == PySlice(FilterRegistry(EvalOf(last_msg)), 0,
                                         MAX_CONCURRENT_AGENTS)
             IN  IF valid_routes # <<>> THEN valid_routes ELSE <<"diagnosis">>

\* The fixed context strings of node_retrieve_knowledge and
\* consult_medical_knowledge.
NoConceptContext   == "No specific medical knowledge concept found in query."
ErrorContext       == "Error retrieving knowledge."
EngineOffline      == "Knowledge Engine Offline."
NoGraphKnowledge   == "No specific knowledge found in graph."
FactsContext       == "- Fact (relation, Hop: 1)"

\* What the extraction model call and json.loads give: the call raises, the
\* text is no JSON, the value is falsy (null, {}, "", 0), the value is truthy
\* but no object, or an object whose "entity" is absent/null ("null"), a
\* string ("str", with its characters) or another value ("other").
ExtractionOutcomes ==
    {[kind |-> k, etype |-> "null", chars |-> <<>>] :
        k \in {"raise", "unparseable", "falsy", "nonobject"}}
    \cup {[kind |-> "object", etype |-> "null", chars |-> <<>>],
          [kind |-> "object", etype |-> "other", chars |-> <<>>],
          [kind |-> "object", etype |-> "str", chars |-> <<>>],
          [kind |-> "object", etype |-> "str", chars |-> <<"n","o","n","e">>],
          [kind |-> "object", etype |-> "str", chars |-> <<"N","o","n","e">>],
          [kind |-> "object", etype |-> "str", chars |-> <<"F">>]}

\* What consult_medical_knowledge.invoke does when it is called.
KnowledgeOutcomes == {"facts", "empty", "offline", "raise"}

\* The sentinel compared without lower(): "None" is looked up in the store.
MutRetrieveCaseSensitive(extraction, knowledge) ==
    IF extraction.kind \in {"raise", "unparseable", "nonobject"}
    THEN [context |-> ErrorContext, called |-> FALSE]
    ELSE IF extraction.kind = "object" /\ extraction.etype = "other"
    THEN [context |-> ErrorContext, called |-> FALSE]
    ELSE IF /\ extraction.kind = "object" /\ extraction.etype = "str"
            /\ extraction.chars # <<>>
            /\ extraction.chars # <<"n","o","n","e">>
    THEN [context |-> CASE knowledge = "facts"   -> FactsContext
                        [] knowledge = "empty"   -> NoGraphKnowledge
                        [] knowledge = "offline" -> EngineOffline
                        [] knowledge = "raise"   -> ErrorContext,
          called |-> TRUE]
    ELSE [context |-> NoConceptContext, called |-> FALSE]

\* node_retrieve_knowledge, lines 187-210: the context string, and whether
\* the knowledge tool was called.
RetrieveKnowledge(extraction, knowledge) ==
    IF extraction.kind \in {"raise", "unparseable", "nonobject"}
    THEN [context |-> ErrorContext, called |-> FALSE]
    ELSE IF extraction.kind = "object" /\ extraction.etype = "other"
    THEN [context |-> ErrorContext, called |-> FALSE]
    ELSE IF /\ extraction.kind = "object" /\ extraction.etype = "str"
            /\ extraction.chars # <<>>
            /\ Lower(extraction.chars) # <<"n","o","n","e">>
    THEN [context |-> CASE knowledge = "facts"   -> FactsContext
                        [] knowledge = "empty"   -> NoGraphKnowledge
                        [] knowledge = "offline" -> EngineOffline
                        [] knowledge = "raise"   -> ErrorContext,
          called |-> TRUE]
    ELSE [context |-> NoConceptContext, called |-> FALSE]

\* How a responder answers process(envelope), were it called.
ResponderBehaviours == {"output", "error", "raise"}

\* The branch without the except clause of line 308: a failing branch
\* contributes no section.
MutAgentNodeNoCatch(agent_key, behaviour) ==
    IF ~RegisteredAgentHasProcess \/ behaviour = "raise"
       \/ "thinking" \notin AgentResponseFields
    THEN [agent_outputs |-> <<>>, agent_thoughts |-> <<>>]
    ELSE [agent_outputs  |-> << <<"## ", Title(agent_key), " Agent Response\n", "out">> >>,
          agent_thoughts |-> << <<"**[", Title(agent_key), "]**: ", "t1">> >>]

\* make_agent_node(agent_key)._node(state), lines 255-313: the partial update
\* the branch returns.  agent_executor.process raises AttributeError when the
\* registered object has no process; response.thinking raises AttributeError
\* when AgentResponse declares no such field; both are caught at line 308.
AgentNodeUpdate(agent_key, behaviour) ==
    LET systemError(e) ==
            [agent_outputs  |-> << <<"## ", Title(agent_key), " Agent System Error\n", e>> >>,
             agent_thoughts |-> << <<"**[", Title(agent_key), "]**: ", "System Error: ", e>> >>]
    IN  IF ~RegisteredAgentHasProcess
        THEN systemError("object has no attribute 'process'")
        ELSE IF behaviour = "raise"
        THEN systemError("exc")
        ELSE IF "thinking" \notin AgentResponseFields
        THEN systemError("object has no attribute 'thinking'")
        ELSE IF behaviour = "error"
        THEN [agent_outputs  |-> << <<"## ", Title(agent_key), " Agent Error\n", "err">> >>,
              agent_thoughts |-> << <<"**[", Title(agent_key), "]**: ", "t1">> >>]
        ELSE [agent_outputs  |-> << <<"## ", Title(agent_key), " Agent Response\n", "out">> >>,
              agent_thoughts |-> << <<"**[", Title(agent_key), "]**: ", "t1">> >>]

\* The writes of the dispatched branches, applied in the order of the graph's
\* nodes when the last branch has finished.
RECURSIVE MergeWrites(_, _, _)
MergeWrites(order, done, field) ==
    IF order = <<>> THEN <<>>
    ELSE (IF Head(order) \in DOMAIN done THEN done[Head(order)][field] ELSE <<>>)
         \o MergeWrites(Tail(order), done, field)

\* "\\n\\n".join(state["agent_outputs"])
RECURSIVE JoinSections(_)
JoinSections(sections) ==
    IF sections = <<>> THEN <<>>
    ELSE IF Len(sections) = 1 THEN Head(sections)
    ELSE Head(sections) \o <<"\\n\\n">> \o JoinSections(Tail(sections))

\* What the formatting model answers, when it answers: a reformatted report,
\* or one that also quotes the (redacted) request.
FormattedOutputs(raw_outputs, redacted_input) ==
    {<<"Formatted: ">> \o raw_outputs,
     <<"Re: ">> \o redacted_input \o <<" ">> \o raw_outputs}

NoUpdate == [agent_outputs |-> <<>>, agent_thoughts |-> <<>>]

\* "\n".join(lines)
RECURSIVE JoinLines(_)
JoinLines(lines) ==
    IF lines = <<>> THEN <<>>
    ELSE IF Len(lines) = 1 THEN <<Head(lines)>>
    ELSE <<Head(lines), "\n">> \o JoinLines(Tail(lines))

\* json.dumps of a dict of strings: {"k": "v", "k": "v"}.
RECURSIVE JsonPairs(_)
JsonPairs(d) ==
    IF d = <<>> THEN <<>>
    ELSE <<"\"">> \o d[1][1] \o <<"\"", ":", " ", "\"">> \o d[1][2] \o <<"\"">>
         \o (IF Len(d) > 1 THEN <<",", " ">> ELSE <<>>) \o JsonPairs(Tail(d))
JsonDumps(d) == <<"{">> \o JsonPairs(d) \o <<"}">>

NoEnvelope == [trace_id |-> None, sender_id |-> None, receiver_id |-> None,
               payload |-> EmptyDict]

\* "\n".join(lines) for lines that are texts.
RECURSIVE JoinTexts(_)
JoinTexts(lines) ==
    IF lines = <<>> THEN <<>>
    ELSE IF Len(lines) = 1 THEN Head(lines)
    ELSE Head(lines) \o <<"\n">> \o JoinTexts(Tail(lines))

\* lines 261-268: the input text every responder gets.
EnhancedInput(st) ==
    <<"Conversation History:\n">> \o JoinTexts(st.history)
    \o <<"\n\nCurrent Request: ">> \o st.redacted_input
    \o <<"\n\nContext from Knowledge Core:\n">> \o JoinLines(st.context)

PiiMappingHint == "\n\nPII Mapping (for tool use only): "

\* The mapping handed to every responder.
MutEnvelopeMappingToAll(agent_key, st) ==
    [trace_id |-> st.trace_id, sender_id |-> "orchestrator", receiver_id |-> agent_key,
     payload |-> DictSet(DictSet(DictSet(EmptyDict, "input", EnhancedInput(st)),
                                 "pii_mapping_json", JsonDumps(st.pii_mapping)),
                         "input", EnhancedInput(st) \o <<PiiMappingHint>>
                                  \o JsonDumps(st.pii_mapping))]

\* lines 272-286: the Envelope the branch builds for agent_executor.process.
BuildEnvelope(agent_key, st) ==
    LET payload == DictSet(EmptyDict, "input", EnhancedInput(st))
    IN  [trace_id |-> st.trace_id, sender_id |-> "orchestrator", receiver_id |-> agent_key,
         payload |->
            IF agent_key = "patient"
            THEN DictSet(DictSet(payload, "pii_mapping_json", JsonDumps(st.pii_mapping)),
                         "input", EnhancedInput(st) \o <<PiiMappingHint>>
                                  \o JsonDumps(st.pii_mapping))
            ELSE payload]

\* No model call to remember: the node that ran last made none, or another
\* node has started since.
NoCall == [node |-> "none"]

\* The history store of a session that has just been created.
EmptyHistory == [messages |-> <<>>, updated |-> 0]

\* ChatService.add_message: the row and the session timestamp, one commit.
add_message(store, role, content) ==
    [messages |-> Append(store.messages, [role |-> role, content |-> content]),
     updated  |-> store.updated + 1]

\* The sessions a request arrives in: a new one, or one with an earlier
\* answered turn (its user message as sent, its answer as returned).
PriorSessions ==
    {EmptyHistory,
     add_message(add_message(EmptyHistory, "user", <<"a", "b">>), "assistant", <<"ok">>)}

\* role.capitalize()
Capitalize(role) == IF role = "user" THEN "User" ELSE "Assistant"

\* chat_endpoint, lines 528-530: the turns before the message just saved,
\* the last HistoryWindow of them, one line each.
HistoryWindow == 10
HistoryContext(store) ==
    LET full_history == store.messages
        past_turns == PySlice(full_history, 0, Len(full_history) - 1)
        recent == PyFrom(past_turns,
                         IF Len(past_turns) > HistoryWindow
                         THEN Len(past_turns) - HistoryWindow ELSE 0)
    IN  [i \in 1..Len(recent) |->
            <<Capitalize(recent[i].role), ": ">> \o recent[i].content]

PipeIdle ==
    /\ pPc = "idle" /\ state = [input |-> <<>>] /\ written = {} /\ routes = <<>>
    /\ branches = <<>> /\ writes = <<>> /\ envelopes = <<>> /\ stageLog = <<>>
    /\ kbCalls = 0
    /\ lastCall = NoCall /\ historyStore = EmptyHistory /\ httpStatus = 0

\* The state chat_endpoint hands to orchestrator_graph.ainvoke.
InitialState(message) ==
    [input |-> message, redacted_input |-> <<>>, pii_mapping |-> EmptyDict,
     context |-> <<>>, history |-> <<>>, messages |-> <<>>, agent_outputs |-> <<>>,
     agent_thoughts |-> <<>>, final_output |-> <<>>, error |-> None,
     trace_id |-> None]

\* chat_endpoint, lines 524-530: the user message is committed before the
\* graph is invoked, and the earlier turns are read back as the history.
ChatSaveUser ==
    /\ pPc = "chat_start"
    /\ historyStore' = add_message(historyStore, "user", state.input)
    /\ state' = [state EXCEPT !.history = HistoryContext(historyStore')]
    /\ pPc' = "analyze_privacy"
    /\ UNCHANGED <<written, routes, branches, writes, envelopes, stageLog, kbCalls, lastCall,
                   httpStatus>>

\* node_analyze_privacy; a recognizer failure is not caught in the graph and
\* reaches chat_endpoint's except clause (HTTP 500).
AnalyzePrivacy ==
    /\ pPc = "analyze_privacy"
    /\ \/ /\ state.input # <<>>
          /\ pPc' = "returned"
          /\ httpStatus' = 500
          /\ UNCHANGED <<state, written, stageLog>>
       \/ \E results \in (IF state.input = <<>> THEN {<<>>}
                           ELSE PipelineAnalyzerResults(state.input)) :
            LET r == redact_pii(state.input, results)
            IN  /\ state' = [state EXCEPT
                                !.trace_id = "uuid",
                                !.redacted_input = r.redacted_text,
                                !.pii_mapping = r.mapping,
                                !.messages = @ \o <<[type |-> "human",
                                                     content |-> [text |-> r.redacted_text]]>>,
                                !.agent_outputs = @ \o <<>>]
                /\ written' = written \cup {"trace_id", "redacted_input", "pii_mapping",
                                            "agent_outputs"}
                /\ stageLog' = Append(stageLog, "analyze_privacy")
                /\ pPc' = "retrieve_knowledge"
                /\ UNCHANGED httpStatus
    /\ UNCHANGED <<routes, branches, writes, envelopes, kbCalls, lastCall, historyStore>>

\* node_retrieve_knowledge: context is overwritten; messages has the
\* operator.add reducer, so returning state["messages"] appends them again.
RetrieveKnowledgeNode ==
    /\ pPc = "retrieve_knowledge"
    /\ \E extraction \in ExtractionOutcomes, knowledge \in KnowledgeOutcomes :
         LET r == RetrieveKnowledge(extraction, knowledge)
         IN  /\ state' = [state EXCEPT !.context = <<r.context>>,
                                       !.messages = @ \o state.messages]
             /\ kbCalls' = kbCalls + (IF r.called THEN 1 ELSE 0)
             /\ lastCall' = [node |-> "retrieve_knowledge", answer |-> extraction]
    /\ written' = written \cup {"context"}
    /\ stageLog' = Append(stageLog, "retrieve_knowledge")
    /\ pPc' = "router"
    /\ UNCHANGED <<routes, branches, writes, envelopes, historyStore, httpStatus>>

\* node_router followed by the conditional edge route_decision.
Router ==
    /\ pPc = "router"
    /\ \E outcome \in RouterOutcomes :
         LET msgs == state.messages \o <<[type |-> "ai",
                                          content |-> StrOfList(RouterRoutes(outcome))]>>
             dest == route_decision(msgs)
         IN  /\ state' = [state EXCEPT !.messages = msgs]
             /\ routes' = dest
             /\ branches' = [k \in {dest[i] : i \in 1..Len(dest)} |-> "pending"]
             /\ writes' = [k \in {dest[i] : i \in 1..Len(dest)} |-> NoUpdate]
             /\ envelopes' = [k \in {dest[i] : i \in 1..Len(dest)} |-> NoEnvelope]
             /\ lastCall' = [node |-> "router", answer |-> outcome]
    /\ stageLog' = Append(stageLog, "router")
    /\ pPc' = "dispatch"
    /\ UNCHANGED <<written, kbCalls, historyStore, httpStatus>>

\* A branch that writes its update into the shared state as soon as it has
\* run, where its siblings read it.
MutAgentNodeSharedState ==
    /\ pPc = "dispatch"
    /\ \E agent_key \in DOMAIN branches, behaviour \in ResponderBehaviours :
         /\ branches[agent_key] = "pending"
         /\ writes' = [writes EXCEPT ![agent_key] = AgentNodeUpdate(agent_key, behaviour)]
         /\ state' = [state EXCEPT
                        !.agent_outputs =
                            @ \o AgentNodeUpdate(agent_key, behaviour).agent_outputs,
                        !.agent_thoughts =
                            @ \o AgentNodeUpdate(agent_key, behaviour).agent_thoughts]
         /\ envelopes' = [envelopes EXCEPT ![agent_key] = BuildEnvelope(agent_key, state)]
         /\ branches' = [branches EXCEPT ![agent_key] = "done"]
    /\ lastCall' = NoCall
    /\ UNCHANGED <<pPc, written, routes, stageLog, kbCalls, historyStore, httpStatus>>

\* One dispatched branch runs its node; its update is kept until the join.
AgentNode ==
    /\ pPc = "dispatch"
    /\ \E agent_key \in DOMAIN branches, behaviour \in ResponderBehaviours :
         /\ branches[agent_key] = "pending"
         /\ writes' = [writes EXCEPT ![agent_key] = AgentNodeUpdate(agent_key, behaviour)]
         /\ envelopes' = [envelopes EXCEPT ![agent_key] = BuildEnvelope(agent_key, state)]
         /\ branches' = [branches EXCEPT ![agent_key] = "done"]
    /\ lastCall' = NoCall
    /\ UNCHANGED <<pPc, state, written, routes, stageLog, kbCalls, historyStore,
                   httpStatus>>

\* The join: every branch has finished, the updates are merged into the
\* accumulators and the aggregator becomes runnable.
DispatchJoin ==
    /\ pPc = "dispatch"
    /\ \A k \in DOMAIN branches : branches[k] = "done"
    /\ state' = [state EXCEPT
                    !.agent_outputs = @ \o MergeWrites(RegistryOrder, writes, "agent_outputs"),
                    !.agent_thoughts = @ \o MergeWrites(RegistryOrder, writes, "agent_thoughts")]
    /\ pPc' = "aggregator"
    /\ lastCall' = NoCall
    /\ UNCHANGED <<written, routes, branches, writes, envelopes, stageLog, kbCalls, historyStore,
                   httpStatus>>

\* An aggregator whose update also replaces the outputs accumulator.
MutAggregatorConsumesOutputs ==
    /\ pPc = "aggregator"
    /\ LET raw_outputs == JoinSections(state.agent_outputs)
       IN  \E formatted \in FormattedOutputs(raw_outputs, state.redacted_input)
                              \cup {raw_outputs} :
             state' = [state EXCEPT !.final_output = formatted, !.agent_outputs = <<>>]
    /\ written' = written \cup {"final_output"}
    /\ stageLog' = Append(stageLog, "aggregator")
    /\ pPc' = "restore_privacy"
    /\ UNCHANGED <<routes, branches, writes, envelopes, kbCalls, lastCall, historyStore,
                   httpStatus>>

\* node_aggregator: the formatting call, or the raw concatenation if it fails.
Aggregator ==
    /\ pPc = "aggregator"
    /\ LET raw_outputs == JoinSections(state.agent_outputs)
       IN  \E formatted \in FormattedOutputs(raw_outputs, state.redacted_input)
                              \cup {raw_outputs} :
             state' = [state EXCEPT !.final_output = formatted]
    /\ written' = written \cup {"final_output"}
    /\ stageLog' = Append(stageLog, "aggregator")
    /\ pPc' = "restore_privacy"
    /\ UNCHANGED <<routes, branches, writes, envelopes, kbCalls, lastCall, historyStore,
                   httpStatus>>

\* Restore reading the mapping's default instead of the mapping Redact stored.
MutRestoreEmptyMapping ==
    /\ pPc = "restore_privacy"
    /\ state' = [state EXCEPT
                    !.final_output = restore_privacy(state.final_output, EmptyDict)]
    /\ stageLog' = Append(stageLog, "restore_privacy")
    /\ pPc' = "END"
    /\ UNCHANGED <<written, routes, branches, writes, envelopes, kbCalls, lastCall, historyStore,
                   httpStatus>>

\* node_restore_privacy.
RestorePrivacy ==
    /\ pPc = "restore_privacy"
    /\ state' = [state EXCEPT
                    !.final_output = restore_privacy(state.final_output, state.pii_mapping)]
    /\ stageLog' = Append(stageLog, "restore_privacy")
    /\ pPc' = "END"
    /\ UNCHANGED <<written, routes, branches, writes, envelopes, kbCalls, lastCall, historyStore,
                   httpStatus>>

\* chat_endpoint, lines 541-549: the assistant message is committed and the
\* graph's result returned.
ChatReturn ==
    /\ pPc = "END"
    /\ historyStore' = add_message(historyStore, "assistant", state.final_output)
    /\ pPc' = "returned"
    /\ httpStatus' = 200
    /\ UNCHANGED <<state, written, routes, branches, writes, envelopes, stageLog, kbCalls, lastCall>>

(***************************************************************************)
(* Streaming endpoint: chat_stream_endpoint.event_generator, which turns   *)
(* the events of orchestrator_graph.astream_events into SSE items.         *)
(***************************************************************************)
\* Two formatted reasoning-trace strings of a responder.
TraceStrings == {"**[Pubmed]**: Thought: t1", "**[Pubmed]**: Action: s"}
QueryingThought == "Querying Knowledge Core..."

\* An event of astream_events, as far as the generator reads it: the event
\* type, the runnable's name, metadata.langgraph_node, whether data.output
\* is a dict with the key agent_thoughts and that list, data.output's
\* final_output, and data.chunk.content.
Event(event, name, hasThoughts, thoughts, final, chunk) ==
    [event |-> event, name |-> name, hasThoughts |-> hasThoughts,
     agent_thoughts |-> thoughts, final_output |-> final, chunk |-> chunk]

\* The events of a run before the graph's own end event: ends of responder
\* nodes with their thoughts, ends of nodes without the key, token chunks of
\* the aggregator's and of the router's model call.
NodeEvents ==
    {Event("on_chain_end", "pubmed", TRUE, t, <<>>, <<>>) :
        t \in {<<"**[Pubmed]**: Thought: t1">>,
               <<"**[Pubmed]**: Action: s">>,
               <<"**[Pubmed]**: Thought: t1", "**[Pubmed]**: Action: s">>,
               <<"**[Pubmed]**: Thought: t1", "**[Pubmed]**: Thought: t1">>}}
    \cup {Event("on_chain_end", "router", FALSE, <<>>, <<>>, <<>>),
          Event("on_chat_model_stream", "aggregator", FALSE, <<>>, <<>>, <<"tok">>),
          Event("on_chat_model_stream", "aggregator", FALSE, <<>>, <<>>,
                Placeholder("PERSON", 1)),
          Event("on_chat_model_stream", "aggregator", FALSE, <<>>, <<>>, <<>>),
          Event("on_chat_model_stream", "router", FALSE, <<>>, <<>>, <<"tok">>)}

\* The mapping of the streamed request (one redacted name), and what
\* node_aggregator falls back to when its model call fails: raw_outputs.
StreamMapping == DictSet(EmptyDict, Placeholder("PERSON", 1), <<"A", "l">>)
RawOutputs == <<"raw">>

\* The content of the aggregator's model call so far: its chunks, joined.
IsAggregatorChunk(ev) == ev.event = "on_chat_model_stream" /\ ev.name = "aggregator"
RECURSIVE ConcatChunks(_)
ConcatChunks(evs) ==
    IF evs = <<>> THEN <<>> ELSE Head(evs).chunk \o ConcatChunks(Tail(evs))
AggregatorContent(seen) == ConcatChunks(SelectSeq(seen, IsAggregatorChunk))

\* The graph's end event: the final state, with all thoughts and the final
\* output, which is what node_restore_privacy made of the aggregator's
\* formatted text (the model call's content, or raw_outputs if it failed).
GraphEndEvents(seen) ==
    {Event("on_chain_end", "LangGraph", TRUE,
           <<"**[Pubmed]**: Thought: t1", "**[Pubmed]**: Action: s">>,
           restore_privacy(formatted, StreamMapping), <<>>) :
        formatted \in {AggregatorContent(seen), RawOutputs}}

\* An SSE data item; its content is a text.
Sse(type, content) == [type |-> type, content |-> content]
DoneMarker == Sse("[DONE]", <<>>)

\* The thought loop without the membership test.
RECURSIVE MutEmitNoDedup(_, _, _)
MutEmitNoDedup(thoughts, seen, out) ==
    IF thoughts = <<>> THEN [agent_thoughts |-> seen, out |-> out]
    ELSE MutEmitNoDedup(Tail(thoughts), Append(seen, Head(thoughts)),
                        Append(out, Sse("thought", <<Head(thoughts)>>)))

\* lines 467-470: for thought in thoughts: if thought not in agent_thoughts:
\* append it and yield a thought item.
RECURSIVE EmitThoughts(_, _, _)
EmitThoughts(thoughts, seen, out) ==
    IF thoughts = <<>> THEN [agent_thoughts |-> seen, out |-> out]
    ELSE IF \E i \in 1..Len(seen) : seen[i] = Head(thoughts)
         THEN EmitThoughts(Tail(thoughts), seen, out)
         ELSE EmitThoughts(Tail(thoughts), Append(seen, Head(thoughts)),
                           Append(out, Sse("thought", <<Head(thoughts)>>)))

\* lines 460-496: the body of the async for, for one event.
HandleEvent(ev, seen, final, out) ==
    LET a == IF ev.event = "on_chain_end" /\ ev.hasThoughts
             THEN EmitThoughts(ev.agent_thoughts, seen, out)
             ELSE [agent_thoughts |-> seen, out |-> out]
        tok == ev.event = "on_chat_model_stream" /\ ev.name = "aggregator"
               /\ ev.chunk # <<>>
        out2 == IF tok THEN Append(a.out, Sse("token", ev.chunk)) ELSE a.out
        final2 == IF tok THEN final \o ev.chunk ELSE final
        graphEnd == ev.event = "on_chain_end" /\ ev.name = "LangGraph"
        graph_final == ev.final_output
    IN  [agent_thoughts |-> a.agent_thoughts,
         final_output |->
            IF graphEnd /\ graph_final # <<>> THEN graph_final ELSE final2,
         out |->
            IF graphEnd /\ graph_final # <<>> /\ final2 = <<>>
            THEN Append(out2, Sse("response", graph_final)) ELSE out2]

StreamIdle ==
    /\ sPc = "idle" /\ sSeen = <<>> /\ sThoughts = <<>> /\ sFinal = <<>>
    /\ sOut = <<>> /\ sSaved = <<>>

\* lines 429-449: session, user message, and the initial thought item.
StreamStart ==
    /\ sPc = "start"
    /\ \E newSession \in BOOLEAN :
         sOut' = (IF newSession THEN <<Sse("session_id", <<"sid">>)>> ELSE <<>>)
                 \o <<Sse("thought", <<QueryingThought>>)>>
    /\ sSaved' = Append(sSaved, [role |-> "user", content |-> <<"msg">>,
                                 thinking |-> <<>>])
    /\ sPc' = "streaming"
    /\ UNCHANGED <<sSeen, sThoughts, sFinal>>

\* One event of the graph run arrives and is handled; the graph's end event
\* is the last one.
StreamEvent ==
    /\ sPc = "streaming"
    /\ \E ev \in (IF Len(sSeen) < MaxEvents THEN NodeEvents ELSE {})
                 \cup GraphEndEvents(sSeen) :
         LET h == HandleEvent(ev, sThoughts, sFinal, sOut)
         IN  /\ sSeen' = Append(sSeen, ev)
             /\ sThoughts' = h.agent_thoughts
             /\ sFinal' = h.final_output
             /\ sOut' = h.out
             /\ sPc' = IF ev.name = "LangGraph" THEN "finishing" ELSE "streaming"
    /\ UNCHANGED sSaved

\* lines 498-502: the answer is saved if there is one, then the done marker.
StreamFinish ==
    /\ sPc = "finishing"
    /\ sSaved' = IF sFinal # <<>>
                 THEN Append(sSaved, [role |-> "assistant", content |-> sFinal,
                                      thinking |-> sThoughts])
                 ELSE sSaved
    /\ sOut' = Append(sOut, DoneMarker)
    /\ sPc' = "done"
    /\ UNCHANGED <<sSeen, sThoughts, sFinal>>

\* lines 504-506: the graph run (or a store call) raises; an error item is
\* yielded and the generator ends.
StreamFail ==
    /\ sPc \in {"streaming", "finishing"}
    /\ sOut' = Append(sOut, Sse("error", <<"exc">>))
    /\ sPc' = "failed"
    /\ UNCHANGED <<sSeen, sThoughts, sFinal, sSaved>>

(***************************************************************************)
(* The specifications.                                                     *)
(***************************************************************************)
InitVault ==
    /\ vPc = "start" /\ vText \in Texts /\ vResults = <<>> /\ vRedacted = <<>>
    /\ vMapping = EmptyDict /\ vRestored = <<>> /\ analyzerCalls = 0
    /\ EngineIdle /\ LoopIdle /\ PipeIdle /\ StreamIdle

NextVault ==
    \/ VaultRedact /\ UNCHANGED <<engineVars, loopVars, pipeVars, streamVars>>
    \/ VaultRestore /\ UNCHANGED <<engineVars, loopVars, pipeVars, streamVars>>

SpecVault == InitVault /\ [][NextVault]_vars

InitEngine ==
    /\ ePc = "ready" /\ concepts \in Stores /\ synonym_map \in SynonymMaps
    /\ eQuery = <<>> /\ eResult = NoNode
    /\ key_to_idx = <<>> /\ embeddings = NoMatrix
    /\ eTopK = 0 /\ eFacts = <<>> /\ eRanked = <<>>
    /\ VaultIdle /\ LoopIdle /\ PipeIdle /\ StreamIdle

NextEngine == Resolve /\ UNCHANGED <<vaultVars, loopVars, pipeVars, streamVars>>

SpecEngine == InitEngine /\ [][NextEngine]_vars

InitSearch ==
    /\ ePc = "ready" /\ concepts \in SearchStores /\ synonym_map = {}
    /\ eQuery = <<>> /\ eResult = NoNode
    /\ \E a \in EngineArtifacts : key_to_idx = a.key_to_idx /\ embeddings = a.embeddings
    /\ eTopK = 0 /\ eFacts = <<>> /\ eRanked = <<>>
    /\ VaultIdle /\ LoopIdle /\ PipeIdle /\ StreamIdle

NextSearch == SearchAndReason /\ UNCHANGED <<vaultVars, loopVars, pipeVars, streamVars>>

SpecSearch == InitSearch /\ [][NextSearch]_vars

InitLoop ==
    /\ lPc = "start"
    /\ max_iterations \in {DefaultMaxIterations, ComplexMaxIterations}
    /\ lPayload \in Payloads
    /\ lIter = 0 /\ llmCalls = 0 /\ toolCalls = 0
    /\ scratchpad = <<>> /\ thinking_steps = <<>>
    /\ lResponse = NoResponse /\ lLoopResult = NoLoopResult /\ lLastStep = "none"
    /\ lLastResponse = NoLLMResponse
    /\ VaultIdle /\ EngineIdle /\ PipeIdle /\ StreamIdle

NextLoop ==
    \/ ProcessValidate /\ UNCHANGED <<vaultVars, engineVars, pipeVars, streamVars>>
    \/ LoopIterate /\ UNCHANGED <<vaultVars, engineVars, pipeVars, streamVars>>
    \/ LoopLLMRaises /\ UNCHANGED <<vaultVars, engineVars, pipeVars, streamVars>>
    \/ LoopExhausted /\ UNCHANGED <<vaultVars, engineVars, pipeVars, streamVars>>

SpecLoop == InitLoop /\ [][NextLoop]_vars

InitStream ==
    /\ sPc = "start" /\ sSeen = <<>> /\ sThoughts = <<>> /\ sFinal = <<>>
    /\ sOut = <<>> /\ sSaved = <<>>
    /\ VaultIdle /\ EngineIdle /\ LoopIdle /\ PipeIdle

NextStream ==
    \/ StreamStart /\ UNCHANGED <<vaultVars, engineVars, loopVars, pipeVars>>
    \/ StreamEvent /\ UNCHANGED <<vaultVars, engineVars, loopVars, pipeVars>>
    \/ StreamFinish /\ UNCHANGED <<vaultVars, engineVars, loopVars, pipeVars>>
    \/ StreamFail /\ UNCHANGED <<vaultVars, engineVars, loopVars, pipeVars>>

SpecStream == InitStream /\ [][NextStream]_vars

Init ==
    /\ pPc = "chat_start"
    /\ \E message \in PipelineInputs : state = InitialState(message)
    /\ written = {"input", "messages", "history", "agent_thoughts"}
    /\ routes = <<>> /\ branches = <<>> /\ writes = <<>> /\ envelopes = <<>>
    /\ stageLog = <<>>
    /\ kbCalls = 0 /\ lastCall = NoCall /\ httpStatus = 0
    /\ historyStore \in PriorSessions
    /\ VaultIdle /\ EngineIdle /\ LoopIdle /\ StreamIdle

Next ==
    \/ ChatSaveUser /\ UNCHANGED <<vaultVars, engineVars, loopVars, streamVars>>
    \/ AnalyzePrivacy /\ UNCHANGED <<vaultVars, engineVars, loopVars, streamVars>>
    \/ RetrieveKnowledgeNode /\ UNCHANGED <<vaultVars, engineVars, loopVars, streamVars>>
    \/ Router /\ UNCHANGED <<vaultVars, engineVars, loopVars, streamVars>>
    \/ AgentNode /\ UNCHANGED <<vaultVars, engineVars, loopVars, streamVars>>
    \/ DispatchJoin /\ UNCHANGED <<vaultVars, engineVars, loopVars, streamVars>>
    \/ Aggregator /\ UNCHANGED <<vaultVars, engineVars, loopVars, streamVars>>
    \/ RestorePrivacy /\ UNCHANGED <<vaultVars, engineVars, loopVars, streamVars>>
    \/ ChatReturn /\ UNCHANGED <<vaultVars, engineVars, loopVars, streamVars>>

Spec == Init /\ [][Next]_vars

(***************************************************************************)
(* Properties.                                                             *)
(***************************************************************************)
Last(seq) == seq[Len(seq)]
SeqToSet(seq) == {seq[i] : i \in 1..Len(seq)}
IsPrefixOf(a, b) == Len(a) <= Len(b) /\ SubSeq(b, 1, Len(a)) = a

\* No placeholder token occurs in text t.
NoPlaceholderIn(t) ==
    \A ty \in Entities, n \in 1..(MaxSpans + 1) : ~Contains(t, Placeholder(ty, n))

\* Two spans share a character.
Overlap(a, b) == a.start < b.end /\ b.start < a.end
DisjointSpans(rs) == \A i, j \in 1..Len(rs) : i # j => ~Overlap(rs[i], rs[j])

\* C1: round trip of the Placeholder Vault: for every text without a
\* placeholder token, and whatever spans the recognizer returned, restoring
\* the redacted text with the mapping gives the text back.
C1_RoundTrip ==
    (vPc = "restored" /\ NoPlaceholderIn(vText)) => vRestored = vText

\* The round trip for spans that do not overlap (what the descending-offset
\* processing order is built for).
RoundTripDisjointSpans ==
    (vPc = "restored" /\ NoPlaceholderIn(vText) /\ DisjointSpans(vResults))
        => vRestored = vText

\* C2: every request that chat_endpoint has answered went through to the
\* terminal state with a final output set; no collaborator failure aborts it.
C2_AlwaysFinalAnswer ==
    pPc = "returned" => (httpStatus = 200 /\ "final_output" \in written)

\* The list the routing model's answer parsed to, as node_router recorded it.
RoutedList == Last(state.messages).content.repr
IsRegistryKey(r) == r \in AGENT_REGISTRY
FirstN(l, n) == SubSeq(l, 1, Min(n, Len(l)))
RouterDone == pPc \in {"dispatch", "aggregator", "restore_privacy", "END"}
             \/ (pPc = "returned" /\ httpStatus = 200)

\* C3 as stated: whenever the routing answer parsed to a list L, the
\* dispatched responders are the first 3 registry keys of L, in L's order.
C3_RoutingSelectionAsStated ==
    RouterDone => routes = FirstN(SelectSeq(RoutedList, IsRegistryKey), 3)

\* C3 amended: for a list L of strings the dispatched responders are the
\* first 3 registry keys of L in L's order, or the single default responder
\* when L holds no registry key; never more than 3 responders are dispatched,
\* each a registry key, and the dispatched branches are exactly those.
C3_RoutingSelection ==
    RouterDone =>
        /\ (NaN \notin SeqToSet(RoutedList) /\ SelectSeq(RoutedList, IsRegistryKey) # <<>>)
              => routes = FirstN(SelectSeq(RoutedList, IsRegistryKey), 3)
        /\ (NaN \notin SeqToSet(RoutedList) /\ SelectSeq(RoutedList, IsRegistryKey) = <<>>)
              => routes = <<"diagnosis">>
        /\ Len(routes) <= 3
        /\ SeqToSet(routes) \subseteq AGENT_REGISTRY
        /\ DOMAIN branches = SeqToSet(routes)

\* The routing model asked for more responders than the cap and the first
\* three were dispatched.
C3_Witness ==
    /\ pPc = "dispatch"
    /\ Len(SelectSeq(RoutedList, IsRegistryKey)) > 3
    /\ Len(routes) = 3
    /\ routes = FirstN(SelectSeq(RoutedList, IsRegistryKey), 3)

\* The sections of the outputs accumulator that belong to responder k.
SectionsOf(k) ==
    {i \in 1..Len(state.agent_outputs) : state.agent_outputs[i][2] = Title(k)}
IsErrorSection(sec) == sec[3] \in {" Agent System Error\n", " Agent Error\n"}

StageOrder == <<"analyze_privacy", "retrieve_knowledge", "router", "aggregator",
                "restore_privacy">>

\* The stage order as it holds of the code: the completed stages are always a
\* prefix of the fixed order, branches run after Route and are all finished
\* before Aggregate, and a run that reaches END has completed all five, with
\* Restore last.
StageOrderOfCompletedRuns ==
    /\ IsPrefixOf(stageLog, StageOrder)
    /\ (pPc = "END" \/ httpStatus = 200) =>
          (stageLog = StageOrder /\ Last(stageLog) = "restore_privacy")
    /\ (\E k \in DOMAIN branches : branches[k] = "done") => Len(stageLog) >= 3
    /\ Len(stageLog) >= 4 =>
          (DOMAIN branches # {} /\ \A k \in DOMAIN branches : branches[k] = "done")
    /\ pPc \in {"retrieve_knowledge", "router", "dispatch", "aggregator",
                 "restore_privacy"} =>
          Len(stageLog) = CASE pPc = "retrieve_knowledge" -> 1
                            [] pPc = "router" -> 2
                            [] pPc = "dispatch" -> 3
                            [] pPc = "aggregator" -> 3
                            [] pPc = "restore_privacy" -> 4

\* C5: the stages run in the fixed order; in every run each sequential stage
\* executes exactly once, none before its predecessor has completed, and
\* Restore is the last stage before the terminal state.
C5_StageOrder ==
    /\ StageOrderOfCompletedRuns
    /\ pPc = "returned" =>
          (stageLog = StageOrder /\ Last(stageLog) = "restore_privacy")

\* The indices of the recognizer's spans of type ty.
SpansOfType(ty) == {i \in 1..Len(vResults) : vResults[i].entity_type = ty}
\* Span i is a k-th largest by start offset among the spans of its type.
IsKthLargest(i, k, ty) ==
    /\ Cardinality({j \in SpansOfType(ty) : vResults[j].start > vResults[i].start}) < k
    /\ Cardinality({j \in SpansOfType(ty) : vResults[j].start >= vResults[i].start}) >= k

\* C6: per entity type the placeholders are <TYPE_1> .. <TYPE_n>, and
\* <TYPE_k> stands for the span with the k-th largest start offset.
C6_DescendingNumbering ==
    vPc \in {"redacted", "restored"} =>
        /\ Len(vMapping) = Len(vResults)
        /\ \A ty \in Entities :
              \A k \in 1..Cardinality(SpansOfType(ty)) :
                 /\ DictHas(vMapping, Placeholder(ty, k))
                 /\ \E i \in SpansOfType(ty) :
                       /\ IsKthLargest(i, k, ty)
                       /\ DictGet(vMapping, Placeholder(ty, k), <<>>)
                            = SubSeq(vText, vResults[i].start + 1, vResults[i].end)

\* Two PERSON spans with different texts, returned left to right: the right
\* one is <PERSON_1>, the left one <PERSON_2>.
C6_Witness ==
    /\ vPc = "redacted"
    /\ vText = <<"a", "b">>
    /\ vResults = <<[entity_type |-> "PERSON", start |-> 0, end |-> 1],
                    [entity_type |-> "PERSON", start |-> 1, end |-> 2]>>
    /\ DictGet(vMapping, Placeholder("PERSON", 1), <<>>) = <<"b">>
    /\ DictGet(vMapping, Placeholder("PERSON", 2), <<>>) = <<"a">>

\* C7: redacting the empty text gives ("", {}) and no recognizer call.
C7_EmptyText ==
    (vText = <<>> /\ vPc # "start") =>
        (vRedacted = <<>> /\ vMapping = EmptyDict /\ analyzerCalls = 0)

C7_Witness == vText = <<>> /\ vPc = "redacted" /\ vRedacted = <<>>

\* The three tiers, read off the store.
SynonymTier(q) ==
    {d \in concepts : \E e \in synonym_map : e.alias = Lower(q) /\ e.key = d.key}
ExactTier(q)  == {d \in concepts : d.name = q}
PrefixTier(q) == {d \in concepts : IsPrefixOf(Lower(q), Lower(d.name))}

ErrorObservations == {"Error: exc", "Error: Tool not found."}
ErrorTraceEntries == {<<"Observation", "Tool Error: exc">>,
                      <<"Observation", "Error: Tool not found.">>}

\* C9: after an iteration whose tool was unknown or threw, the error
\* observation is the last entry of scratchpad and trace, the loop has not
\* returned and runs its next iteration while budget remains; process
\* returns an error only for an invalid payload or a failed model call.
C9_ToolFailureContinues ==
    /\ lLastStep \in {"tool_error", "tool_not_found"} =>
          /\ scratchpad # <<>> /\ Last(scratchpad).observation \in ErrorObservations
          /\ thinking_steps # <<>> /\ Last(thinking_steps) \in ErrorTraceEntries
          /\ lPc = "loop"
          /\ lIter < max_iterations => ENABLED LoopIterate
    /\ (lPc = "returned" /\ lLastStep \notin {"invalid", "llm_raise"}) =>
          lResponse.error = None

\* A call that met an unknown tool and a throwing tool and still returned
\* an output without error.
C9_Witness ==
    /\ lPc = "returned"
    /\ lResponse.error = None /\ lResponse.output # None
    /\ \E i, j \in 1..Len(scratchpad) :
          /\ scratchpad[i].observation = "Error: exc"
          /\ scratchpad[j].observation = "Error: Tool not found."

\* C10: process calls the model at most max_iterations times; when the
\* budget runs out without a final answer the response carries the
\* iteration-limit message and the trace collected so far, and no error.
C10_BoundedLoop ==
    /\ llmCalls <= max_iterations
    /\ (lPc = "returned" /\ lLastStep = "exhausted") =>
          /\ llmCalls = max_iterations
          /\ lResponse.output = LimitMessage
          /\ lResponse.error = None
          /\ "thinking" \in DOMAIN lResponse
          /\ lResponse.thinking = thinking_steps

\* What does hold of the loop itself: the model is called at most
\* max_iterations times and _execute_rect_loop returns the limit message with
\* the trace; the response has the message as output and no error.
BoundedLoopResult ==
    /\ llmCalls <= max_iterations
    /\ (lPc = "returned" /\ lLastStep = "exhausted") =>
          /\ llmCalls = max_iterations
          /\ lLoopResult = [output |-> LimitMessage, thinking |-> thinking_steps]
          /\ lResponse.output = LimitMessage
          /\ lResponse.error = None

\* The answer of the routing model that node_router has just recorded, and
\* the answer of the extraction model that node_retrieve_knowledge has just
\* acted on.
RouterJustRan == pPc = "dispatch" /\ lastCall.node = "router"
ExtractionJustRan == pPc = "router" /\ lastCall.node = "retrieve_knowledge"

\* The responder dispatched when the filtered list is empty (line 361).
DefaultResponder == "diagnosis"

\* C11: an unparseable routing answer, a parsed answer that is no list, and
\* a list that is empty after filtering to registry keys all dispatch one and
\* the same single default responder.
C11_SameDefaultResponder ==
    RouterJustRan =>
        LET a == lastCall.answer
        IN  (\/ a.kind \in {"unparseable", "nonlist"}
             \/ (a.kind = "list" /\ SelectSeq(a.items, IsRegistryKey) = <<>>))
                => routes = <<DefaultResponder>>

\* The extraction answers the request treats as 'nothing to look up': null
\* (or another falsy JSON value), an object without entity or with a null or
\* empty one, and the 'none' sentinel in any letter case.
IsNoneSentinel(a) ==
    \/ a.kind = "falsy"
    \/ /\ a.kind = "object"
       /\ \/ a.etype = "null"
          \/ a.etype = "str" /\ a.chars = <<>>
          \/ a.etype = "str" /\ Lower(a.chars) = <<"n", "o", "n", "e">>

\* C12: when extraction returns null, an empty entity or the 'none' sentinel
\* in any letter case, the context recorded is exactly the fixed 'no concept'
\* string and the request makes no knowledge-store call.
C12_NoneSentinel ==
    /\ (ExtractionJustRan /\ IsNoneSentinel(lastCall.answer)) =>
          (state.context = <<NoConceptContext>> /\ kbCalls = 0)
    /\ (pPc # "analyze_privacy" /\ state.context = <<NoConceptContext>>) => kbCalls = 0

\* The extraction model answered {"entity": "None"}.
C12_Witness ==
    /\ ExtractionJustRan
    /\ lastCall.answer.kind = "object" /\ lastCall.answer.etype = "str"
    /\ lastCall.answer.chars = <<"N", "o", "n", "e">>
    /\ state.context = <<NoConceptContext>>
    /\ kbCalls = 0

\* C13: when the extraction model call fails or its answer cannot be parsed,
\* the lookup is skipped and the context recorded is the same fixed string
\* that is recorded for the 'none' sentinel.
C13_ExtractionFailure ==
    (ExtractionJustRan /\ lastCall.answer.kind \in {"raise", "unparseable"}) =>
        (state.context = <<NoConceptContext>> /\ kbCalls = 0)

\* What holds on extraction failure: no lookup, and the error context string.
ExtractionFailureSkipsLookup ==
    (ExtractionJustRan /\ lastCall.answer.kind \in {"raise", "unparseable"}) =>
        (state.context = <<ErrorContext>> /\ kbCalls = 0)

\* C14: when payload["input"] is missing or empty, process returns a response
\* with the validation message as error and no output, and neither the
\* language model nor a tool has been invoked.
C14_PayloadValidation ==
    (lPc \notin {"idle", "start"} /\ DictGet(lPayload, "input", "") = "") =>
        /\ lPc = "returned"
        /\ lResponse.error = ValidationMessage
        /\ lResponse.output = None
        /\ llmCalls = 0 /\ toolCalls = 0
        /\ scratchpad = <<>> /\ thinking_steps = <<>>

\* process was called with an empty input and answered.
C14_Witness ==
    /\ lPc = "returned"
    /\ DictHas(lPayload, "input") /\ DictGet(lPayload, "input", "") = ""
    /\ lResponse.error = ValidationMessage
    /\ llmCalls = 0

\* C15: no response returned by process has both output and error set, on
\* any return path.
C15_NeverOutputAndError ==
    lPc = "returned" =>
        /\ ~(lResponse.output # None /\ lResponse.error # None)
        /\ lLastStep \in {"invalid", "llm_raise"} =>
              (lResponse.error # None /\ lResponse.output = None)
        /\ lLastStep \notin {"invalid", "llm_raise"} =>
              (lResponse.error = None /\ lResponse.output # None)

\* process answered through its except clause.
C15_Witness ==
    /\ lPc = "returned" /\ lLastStep = "llm_raise"
    /\ lResponse.error = "exc" /\ lResponse.output = None
    /\ llmCalls > 1

\* C16: the turn's user message and its final answer are committed as one
\* transaction: in no reachable state does the history store hold a user
\* message without the answer that follows it.
C16_AtomicHistory ==
    \A i \in 1..Len(historyStore.messages) :
        historyStore.messages[i].role = "user" =>
            /\ i < Len(historyStore.messages)
            /\ historyStore.messages[i + 1].role = "assistant"

\* What holds: each add_message commits its row together with the session
\* timestamp, and a turn that chat_endpoint answers with 200 has both rows.
HistoryOfAnsweredTurn ==
    /\ historyStore.updated = Len(historyStore.messages)
    /\ httpStatus = 200 =>
          LET n == Len(historyStore.messages)
          IN  /\ n >= 2
              /\ historyStore.messages[n - 1] = [role |-> "user", content |-> state.input]
              /\ historyStore.messages[n] = [role |-> "assistant",
                                              content |-> state.final_output]

\* The branches that have built their envelope and run.
RanBranches == {k \in DOMAIN branches : branches[k] = "done"}

\* The envelope carries the serialized mapping: as a payload entry or inside
\* its input text.
CarriesMapping(env) ==
    \/ DictKeys(env.payload) # {"input"}
    \/ Contains(DictGet(env.payload, "input", <<>>), JsonDumps(state.pii_mapping))
    \/ Contains(DictGet(env.payload, "input", <<>>), <<PiiMappingHint>>)

EnvelopesOfDispatch ==
    \A k \in RanBranches :
        /\ envelopes[k].receiver_id = k
        /\ k = "patient" =>
              /\ DictHas(envelopes[k].payload, "pii_mapping_json")
              /\ DictGet(envelopes[k].payload, "pii_mapping_json", <<>>)
                    = JsonDumps(state.pii_mapping)
        /\ k # "patient" => ~CarriesMapping(envelopes[k])

DispatchKeepsRedactedInput ==
    (pPc = "dispatch") =>
        (state'.redacted_input = state.redacted_input
         /\ state'.pii_mapping = state.pii_mapping)

\* C17: the envelope built for the patient responder carries the serialized
\* mapping, the envelope built for any other dispatched responder carries no
\* mapping in its payload or input text, and Dispatch leaves the redacted
\* input of the Request Context unchanged.
C17_OnlyPatientGetsMapping ==
    []EnvelopesOfDispatch /\ [][DispatchKeepsRedactedInput]_vars

\* patient and another responder ran for a request with a non-empty mapping.
C17_Witness ==
    /\ pPc = "aggregator"
    /\ state.pii_mapping # EmptyDict
    /\ "patient" \in RanBranches /\ "drug" \in RanBranches
    /\ DictGet(envelopes["patient"].payload, "pii_mapping_json", <<>>)
          = JsonDumps(state.pii_mapping)
    /\ DictKeys(envelopes["drug"].payload) = {"input"}

\* The contents of the thought items yielded so far, in order.
IsThoughtItem(item) == item.type = "thought"
ThoughtItems == SelectSeq(sOut, IsThoughtItem)

\* C18: within one streamed response no reasoning-trace string is yielded
\* as a thought item more than once, whatever events carried it.
C18_ThoughtsEmittedOnce ==
    /\ \A i, j \in 1..Len(ThoughtItems) :
          ThoughtItems[i].content = ThoughtItems[j].content => i = j
    /\ \A t \in TraceStrings :
          (\E i \in 1..Len(sSeen) :
              sSeen[i].hasThoughts /\ t \in SeqToSet(sSeen[i].agent_thoughts))
          => Cardinality({i \in 1..Len(sOut) : sOut[i] = Sse("thought", <<t>>)}) = 1

\* One trace string arrived twice in one event and again in a later event,
\* and was yielded once.
C18_Witness ==
    /\ sPc = "done"
    /\ \E i, j \in 1..Len(sSeen) :
          /\ i < j
          /\ sSeen[i].agent_thoughts = <<"**[Pubmed]**: Thought: t1",
                                         "**[Pubmed]**: Thought: t1">>
          /\ "**[Pubmed]**: Thought: t1" \in SeqToSet(sSeen[j].agent_thoughts)
    /\ Cardinality({i \in 1..Len(sOut) :
                       sOut[i] = Sse("thought", <<"**[Pubmed]**: Thought: t1">>)}) = 1

\* resolve_entity answered from its third tier.
PrefixTierReached ==
    /\ ePc = "resolved" /\ eResult # NoNode
    /\ SynonymTier(eQuery) = {} /\ ExactTier(eQuery) = {}

\* C19: when resolve_entity reaches the prefix tier, the one concept returned
\* has a name that starts with the term (letter case aside) and is of
\* minimal length among all such concepts.
C19_FuzzyTieBreak ==
    PrefixTierReached =>
        /\ eResult \in PrefixTier(eQuery)
        /\ \A d \in PrefixTier(eQuery) : Len(eResult.name) <= Len(d.name)

\* The tie-break for terms without a LIKE wildcard character.
FuzzyTieBreakPlainTerms ==
    (PrefixTierReached /\ SeqToSet(eQuery) \cap {"%", "_"} = {}) =>
        /\ eResult \in PrefixTier(eQuery)
        /\ \A d \in PrefixTier(eQuery) : Len(eResult.name) <= Len(d.name)

\* The reasoning loop ended with a final answer.
LoopEndedWithAnswer ==
    lPc = "returned" /\ lLastStep \in {"final", "implicit_final"}

\* C20: when the reasoning loop ends with final answer X and collected trace
\* T, process returns a response carrying X and T (and no error), from which
\* the branch builds its response section and its labeled trace entries.
C20_SuccessCarriesAnswerAndTrace ==
    LoopEndedWithAnswer =>
        /\ lResponse.output = lLoopResult.output
        /\ lResponse.error = None
        /\ "thinking" \in DOMAIN lResponse
        /\ lResponse.thinking = lLoopResult.thinking

\* What holds of a successful call: the response carries the answer and no
\* error, and none of the declared fields holds the trace.
SuccessCarriesAnswer ==
    LoopEndedWithAnswer =>
        /\ lResponse.output = lLoopResult.output
        /\ lResponse.error = None
        /\ DOMAIN lResponse = AgentResponseFields

\* The number of times the aggregator node has run.
AggregatorRuns == Cardinality({i \in 1..Len(stageLog) : stageLog[i] = "aggregator"})
AllBranchesDone ==
    DOMAIN branches # {} /\ \A k \in DOMAIN branches : branches[k] = "done"

\* The join as it holds of the code: the aggregator runs at most once, only
\* when every dispatched branch has finished, its input holds exactly one
\* section per dispatched branch (the one that branch returned), and a run
\* that gets past Dispatch runs it exactly once.
JoinOfDispatchedBranches ==
    /\ AggregatorRuns <= 1
    /\ (pPc = "aggregator" \/ AggregatorRuns = 1) =>
          /\ AllBranchesDone
          /\ Len(state.agent_outputs) = Cardinality(DOMAIN branches)
          /\ \A k \in DOMAIN branches :
                /\ Cardinality(SectionsOf(k)) = 1
                /\ \A i \in SectionsOf(k) :
                      /\ state.agent_outputs[i] = writes[k].agent_outputs[1]
                      /\ state.agent_outputs[i][3] \in
                            {" Agent Response\n", " Agent Error\n", " Agent System Error\n"}
    /\ (pPc = "dispatch" /\ ~AllBranchesDone) => ~ENABLED DispatchJoin
    /\ (pPc \in {"restore_privacy", "END"} \/ httpStatus = 200) => AggregatorRuns = 1

\* C21: Aggregate is a join: it runs exactly once per request, only after
\* every dispatched branch has completed with a response or caught-failure
\* section, and its input holds one section for each dispatched branch.
C21_AggregateIsJoin ==
    /\ JoinOfDispatchedBranches
    /\ pPc = "returned" => AggregatorRuns = 1

\* While the branches run, the Request Context holds no branch's output or
\* trace; every envelope built is the one the context after Route determines;
\* and what reaches the aggregator is the branches' own updates, whatever
\* the order they finished in.
BranchesReadRouteContext ==
    /\ \A k \in RanBranches : envelopes[k] = BuildEnvelope(k, state)
    /\ pPc = "dispatch" => (state.agent_outputs = <<>> /\ state.agent_thoughts = <<>>)
    /\ (pPc \in {"aggregator", "restore_privacy", "END"} \/ httpStatus = 200) =>
          /\ SeqToSet(state.agent_outputs)
                = UNION {SeqToSet(writes[k].agent_outputs) : k \in DOMAIN branches}
          /\ SeqToSet(state.agent_thoughts)
                = UNION {SeqToSet(writes[k].agent_thoughts) : k \in DOMAIN branches}
          /\ Len(state.agent_outputs) = Cardinality(DOMAIN branches)

\* A step of one branch: the Request Context and the siblings' envelopes and
\* updates stay as they are, and the branch's envelope is built from the
\* context alone.
BranchStepIsLocal ==
    (pPc = "dispatch" /\ pPc' = "dispatch" /\ branches' # branches) =>
        /\ state' = state
        /\ \E k \in DOMAIN branches :
              /\ branches[k] = "pending" /\ branches'[k] = "done"
              /\ \A j \in DOMAIN branches \ {k} :
                    /\ branches'[j] = branches[j]
                    /\ writes'[j] = writes[j]
                    /\ envelopes'[j] = envelopes[j]
              /\ envelopes'[k] = BuildEnvelope(k, state)
              /\ writes'[k] \in {AgentNodeUpdate(k, b) : b \in ResponderBehaviours}

\* C22: branch independence: under every interleaving the envelope a
\* responder receives depends only on the Request Context as Route left it,
\* never on a sibling's output or trace, and the sections reaching Aggregate
\* are the same for every interleaving.
C22_BranchIndependence ==
    []BranchesReadRouteContext /\ [][BranchStepIsLocal]_vars

\* Three branches ran one after another, the last with two finished siblings,
\* and all three envelopes are built from the same context.
C22_Witness ==
    /\ pPc = "dispatch"
    /\ Cardinality(RanBranches) = 3
    /\ \A k \in RanBranches : envelopes[k] = BuildEnvelope(k, state)
    /\ \A k \in RanBranches : writes[k].agent_outputs # <<>>
    /\ state.agent_outputs = <<>>

\* One step of the state machine keeps what the accumulators held.
AppendOnlyStep ==
    /\ IsPrefixOf(state.context, state'.context)
    /\ IsPrefixOf(state.agent_outputs, state'.agent_outputs)
    /\ IsPrefixOf(state.agent_thoughts, state'.agent_thoughts)

\* C23: at every stage transition the previous value of each accumulator
\* (knowledge-context snippets, responder outputs, reasoning-trace strings)
\* is a prefix of its new value.
C23_AppendOnlyAccumulators == [][AppendOnlyStep]_vars

\* All accumulators hold entries and the stages after Dispatch have run.
C23_Witness ==
    /\ pPc = "END"
    /\ Len(state.context) = 1
    /\ Len(state.agent_outputs) >= 2
    /\ Len(state.agent_thoughts) >= 2

\* The mapping and redacted input in the Request Context are what redact_pii
\* gave for the request's input.
MappingIsRedactsMapping ==
    "pii_mapping" \in written =>
        \E results \in (IF state.input = <<>> THEN {<<>>}
                        ELSE PipelineAnalyzerResults(state.input)) :
            /\ redact_pii(state.input, results).mapping = state.pii_mapping
            /\ redact_pii(state.input, results).redacted_text = state.redacted_input

\* A step of a stage after Redact leaves mapping, input and redacted input as
\* they are, and the step of Restore replaces with that mapping.
MappingFrozenStep ==
    (pPc \in {"retrieve_knowledge", "router", "dispatch", "aggregator",
              "restore_privacy", "END"}) =>
        /\ state'.pii_mapping = state.pii_mapping
        /\ state'.input = state.input
        /\ state'.redacted_input = state.redacted_input
        /\ (pPc = "restore_privacy" /\ pPc' = "END") =>
              state'.final_output = restore_privacy(state.final_output, state.pii_mapping)

\* C24: the placeholder mapping is frozen between Redact and Restore: no
\* stage in between changes the mapping, the original input or the redacted
\* input, and Restore replaces placeholders in the aggregated output with
\* exactly the mapping Redact produced.
C24_MappingFrozen ==
    []MappingIsRedactsMapping /\ [][MappingFrozenStep]_vars

\* A request with a redacted value went through the patient branch and
\* Restore put the value back into the final output.
C24_Witness ==
    /\ pPc = "END"
    /\ state.pii_mapping # EmptyDict
    /\ "patient" \in RanBranches
    /\ state.redacted_input # state.input
    /\ Contains(state.final_output, state.input)
    /\ NoPlaceholderIn(state.final_output)

\* The step in which llm.invoke returned a response with a Final Answer
\* marker: process returns the marker's payload, no tool is invoked and the
\* scratchpad is left as it was.
FinalAnswerStep ==
    (lPc = "loop" /\ llmCalls' = llmCalls + 1 /\ lLastResponse'.final) =>
        /\ lPc' = "returned"
        /\ lLastStep' = "final"
        /\ lLoopResult'.output = "ans"
        /\ lResponse'.output = "ans"
        /\ toolCalls' = toolCalls
        /\ scratchpad' = scratchpad

\* Once process has returned, no model call and no tool call follows.
NoCallAfterReturn ==
    lPc = "returned" => (llmCalls' = llmCalls /\ toolCalls' = toolCalls)

\* C25: a response with a Final Answer marker ends the loop in the same
\* iteration with the marker's payload as output; no further model call is
\* made and no tool is invoked, also when the response holds an Action and
\* Action Input pair as well.
C25_FinalAnswerImmediate == [][FinalAnswerStep /\ NoCallAfterReturn]_vars

\* After a tool step, a response with both a Final Answer marker and an
\* Action pair naming a known tool ended the loop without a second tool call.
C25_Witness ==
    /\ lPc = "returned"
    /\ lLastResponse.final
    /\ lLastResponse.action \in ToolNames /\ lLastResponse.input
    /\ lLoopResult.output = "ans"
    /\ llmCalls = 2 /\ toolCalls = 1

\* The score search_and_reason gives the traversal row at position p.
ScoreAt(p) == RankedFacts(eResult, eFacts)[p].score
\* Row a comes before row b in the ranking: higher score, or the same score
\* and earlier in the traversal.
RanksBefore(sa, pa, sb, pb) == sa > sb \/ (sa = sb /\ pa < pb)
RankingDisabled == eResult.key \notin DOMAIN key_to_idx \/ embeddings = NoMatrix

\* C26: search_and_reason returns at most min(topK, 20) facts, in
\* non-increasing score order with equal scores in traversal order; they are
\* the first topK of the traversed facts under that ordering; with the anchor
\* not indexed or the matrix absent every score is 0.0 and the result is the
\* first topK facts in traversal order.
C26_RankedTopK ==
    ePc = "searched" =>
        /\ Len(eRanked) <= Min(eTopK, TraverseLimit)
        /\ Len(eRanked) = Min(eTopK, Len(eFacts))
        /\ \A i \in 1..Len(eRanked) :
              /\ eRanked[i].pos \in 1..Len(eFacts)
              /\ eRanked[i].key = eFacts[eRanked[i].pos]
              /\ eRanked[i].score = ScoreAt(eRanked[i].pos)
        /\ \A i, j \in 1..Len(eRanked) :
              i < j => RanksBefore(eRanked[i].score, eRanked[i].pos,
                                   eRanked[j].score, eRanked[j].pos)
        /\ \A p \in 1..Len(eFacts) :
              (\A i \in 1..Len(eRanked) : eRanked[i].pos # p) =>
                  \A i \in 1..Len(eRanked) :
                      RanksBefore(eRanked[i].score, eRanked[i].pos, ScoreAt(p), p)
        /\ (eResult # NoNode /\ RankingDisabled) =>
              \A i \in 1..Len(eRanked) : eRanked[i].score = 0 /\ eRanked[i].pos = i

\* More than 20 paths were found and more than 20 facts asked for: 20 are
\* returned, and two facts with the same score from different positions kept
\* their traversal order behind a fact found later with a higher score.
C26_Witness ==
    /\ ePc = "searched"
    /\ eTopK > TraverseLimit
    /\ Len(eRanked) = TraverseLimit
    /\ eRanked[1].pos > 1
    /\ eRanked[2].score = eRanked[3].score
    /\ eRanked[2].score < eRanked[1].score
    /\ eRanked[2].pos < eRanked[3].pos

IsDoneMarker(item) == item = DoneMarker
\* The stream has ended: the generator returned after the done marker or
\* after an error item.
StreamEnded == sPc \in {"done", "failed"}

\* C27: every streamed response, completed normally or ended by an error
\* item, ends with exactly one done marker, which is its last item.
C27_StreamEndsWithDone ==
    StreamEnded =>
        /\ Len(SelectSeq(sOut, IsDoneMarker)) = 1
        /\ Last(sOut) = DoneMarker

\* What holds: a stream that completes normally ends with its only done
\* marker; a stream ended by an error item carries no done marker.
NormalStreamEndsWithDone ==
    /\ sPc = "done" => (Len(SelectSeq(sOut, IsDoneMarker)) = 1 /\ Last(sOut) = DoneMarker)
    /\ sPc # "done" => SelectSeq(sOut, IsDoneMarker) = <<>>
    /\ sPc = "failed" => Last(sOut).type = "error"

SameUpToCase(a, b) == Lower(a) = Lower(b)

\* C28: resolve_entity is case-insensitive on the term: two terms that
\* differ only in letter case resolve to the same result on the same
\* synonym map and concept store.
C28_CaseInsensitive ==
    \A t1, t2 \in QueryTerms :
        SameUpToCase(t1, t2) => resolve_entity(t1) = resolve_entity(t2)

\* What holds: the result is the same for both terms unless the store holds
\* two concepts whose names differ only in letter case.
CaseInsensitiveWithoutCaseTwins ==
    (\A d1, d2 \in concepts : SameUpToCase(d1.name, d2.name) => d1 = d2) =>
        \A t1, t2 \in QueryTerms :
            SameUpToCase(t1, t2) => resolve_entity(t1) = resolve_entity(t2)

IsTokenItem(item) == item.type = "token"
IsResponseItem(item) == item.type = "response"
RECURSIVE ConcatContents(_)
ConcatContents(items) ==
    IF items = <<>> THEN <<>> ELSE Head(items).content \o ConcatContents(Tail(items))
\* The answer text the caller received: its token items joined, or its
\* response item.
DeliveredAnswer ==
    IF SelectSeq(sOut, IsTokenItem) # <<>>
    THEN ConcatContents(SelectSeq(sOut, IsTokenItem))
    ELSE ConcatContents(SelectSeq(sOut, IsResponseItem))
\* The final output of the graph run, after Restore.
RestoredFinalOutput == Last(sSeen).final_output
AssistantMessages == {i \in 1..Len(sSaved) : sSaved[i].role = "assistant"}

\* C29: the answer text delivered to the caller of a streamed request is the
\* final output after Restore, which is also the text saved as the assistant
\* message; no placeholder of the mapping is delivered.
C29_StreamedAnswerIsRestored ==
    sPc = "done" =>
        /\ DeliveredAnswer = RestoredFinalOutput
        /\ \A i \in AssistantMessages : sSaved[i].content = DeliveredAnswer
        /\ \A i \in 1..Len(StreamMapping) : ~Contains(DeliveredAnswer, StreamMapping[i][1])

\* What holds: a non-empty final output after Restore is what is saved, and
\* it is what the caller received when no token was streamed.
SavedAnswerIsRestored ==
    sPc = "done" =>
        /\ RestoredFinalOutput # <<>> =>
              /\ Cardinality(AssistantMessages) = 1
              /\ \A i \in AssistantMessages : sSaved[i].content = RestoredFinalOutput
        /\ (RestoredFinalOutput # <<>> /\ SelectSeq(sOut, IsTokenItem) = <<>>) =>
              DeliveredAnswer = RestoredFinalOutput

\* The original values recorded in the current request's mapping.
MappingValues == {state.pii_mapping[i][2] : i \in 1..Len(state.pii_mapping)}
NonPatientRan == {k \in RanBranches : k # "patient"}

\* C30: no original value recorded in the current request's mapping appears
\* in the payload of an envelope sent to a responder other than 'patient',
\* the prior-turn history section of its input included.
C30_ValuesStayOutOfEnvelopes ==
    \A k \in NonPatientRan :
        \A i \in 1..Len(envelopes[k].payload) :
            \A v \in MappingValues : ~Contains(envelopes[k].payload[i][2], v)

\* What holds: in the first turn of a session (no prior-turn history) no
\* value of the mapping is in a non-patient envelope.
FirstTurnValuesStayOut ==
    state.history = <<>> =>
        \A k \in NonPatientRan :
            \A i \in 1..Len(envelopes[k].payload) :
                \A v \in MappingValues : ~Contains(envelopes[k].payload[i][2], v)

====
